---- MODULE Spec2Model ----
(***************************************************************************)
(* Model of the yupsh framework pipeline engine (src/pipeline.go).         *)
(*                                                                         *)
(* A Pipeline is an ordered list of Commands plus ExecutionFlags.          *)
(* Pipeline.Execute runs zero stages (returns nil), one stage (direct call *)
(* in the caller's task) or N >= 2 stages (one goroutine per stage, joined *)
(* by N-1 io.Pipe connectors, errors collected on a buffered channel).     *)
(*                                                                         *)
(* A Command is opaque to the orchestrator: a stage is modelled as a       *)
(* process that may read its input, write its output, write the error      *)
(* stream, observe the context, and return nil or an error at any point    *)
(* where it is not blocked inside a Read or a Write.                       *)
(***************************************************************************)
EXTENDS Integers, Sequences, FiniteSets, TLC

\* ------------------------------------------------------------------ bounds
MaxStages == 3      \* longest pipeline explored
MaxWrites == 1      \* Write calls one stage may issue on its output
MaxInput == 1       \* longest external input explored
MaxErrWrites == 1   \* messages the shared error stream may receive

MaxChunk == 2       \* longest Write chunk and largest Read buffer explored
MaxOpts == 3        \* longest configurer list passed to WithFlags
MaxProcsBound == 2  \* largest MaxProcs value configured
MaxCalls == 2       \* Execute calls made on one Pipeline
MaxSrc == 3         \* longest source copied
MaxBuf == 2         \* longest non-nil copy buffer

Bytes == {0, 1}

Stages == 0 .. (MaxStages - 1)

RECURSIVE SeqsUpTo(_, _)
SeqsUpTo(S, n) ==
    IF n = 0 THEN {<<>>}
    ELSE LET shorter == SeqsUpTo(S, n - 1)
         IN  shorter \cup {Append(s, b) : s \in {t \in shorter : Len(t) = n - 1}, b \in S}

\* The pipes and the orchestrator treat bytes alike whatever their value, so
\* the chunks explored are those whose neighbouring bytes differ: a loss, a
\* duplication or a swap of bytes changes such a sequence visibly.
Alternating(s) == \A j \in 1 .. (Len(s) - 1) : s[j] # s[j + 1]

Chunks == {c \in SeqsUpTo(Bytes, MaxChunk) : c # <<>> /\ Alternating(c)}

\* The orchestrator never looks at the bytes: where only the control flow is
\* of interest, stages write one-byte chunks of a single value.
OpaqueChunks == {<<0>>}

OpaqueInputs == {<<0>>}

BufSizes == 1 .. MaxChunk

ExtInputs == {s \in SeqsUpTo(Bytes, MaxInput) : Alternating(s)}

Min(a, b) == IF a < b THEN a ELSE b

Take(s, n) == SubSeq(s, 1, Min(n, Len(s)))

Drop(s, n) == SubSeq(s, Min(n, Len(s)) + 1, Len(s))

IsPrefix(s, t) == Len(s) <= Len(t) /\ SubSeq(t, 1, Len(s)) = s

\* ------------------------------------------------------------ error values
\* An error value is <<kind, stage>>: the stage that produced it is part of
\* its identity, so that the orchestrator's choice among errors is visible.
Nil == <<"nil", 0>>

StageErr(i) == <<"fail", i>>

CtxErr(i) == <<"ctx", i>>

\* ------------------------------------------------------------ stream handles
Input == <<"input", 0>>

Output == <<"output", 0>>

Stderr == <<"stderr", 0>>

NoStream == <<"none", 0>>

Reader(k) == <<"r", k>>

Writer(k) == <<"w", k>>

\* ------------------------------------------------------------------- flags
\* ExecutionFlags; configure() starts from the zero value of the struct.
ZeroFlags ==
    [PipeFail |-> FALSE, Buffered |-> FALSE, Verbose |-> FALSE,
     DryRun |-> FALSE, MaxProcs |-> 0]

\* NewPipeline: flags: ExecutionFlags{MaxProcs: 1}
NewPipelineFlags == [ZeroFlags EXCEPT !.MaxProcs = 1]

\* Mutant: a configurator starts from a fresh struct, losing what earlier
\* configurators set.
Configure_ResetsOthers(sw, fl) == [ZeroFlags EXCEPT ![sw[1]] = sw[2]]

\* A configurator is <<type, value>>. Lines 59-63: one Configure method per
\* configurator type, each assigning one field of the struct.
Configure(sw, fl) ==
    CASE sw[1] = "PipeFail" -> [fl EXCEPT !.PipeFail = sw[2]]
      [] sw[1] = "Buffered" -> [fl EXCEPT !.Buffered = sw[2]]
      [] sw[1] = "Verbose"  -> [fl EXCEPT !.Verbose = sw[2]]
      [] sw[1] = "DryRun"   -> [fl EXCEPT !.DryRun = sw[2]]
      [] sw[1] = "MaxProcs" -> [fl EXCEPT !.MaxProcs = sw[2]]

\* A nil entry of the configurer list.
NilSwitch == <<"nil", FALSE>>

IsNilSwitch(sw) == sw[1] = "nil"

PipeFailOn == <<"PipeFail", TRUE>>

PipeFailOff == <<"PipeFail", FALSE>>

Switches == {PipeFailOn, PipeFailOff}

\* Lines 84-89: for each opt in order: skip nil, else opt.Configure(def).
RECURSIVE ApplyOpts(_, _)
ApplyOpts(opts, fl) ==
    IF opts = <<>> THEN fl
    ELSE IF IsNilSwitch(Head(opts)) THEN ApplyOpts(Tail(opts), fl)
    ELSE ApplyOpts(Tail(opts), Configure(Head(opts), fl))

Reverse(s) == [j \in 1 .. Len(s) |-> s[Len(s) + 1 - j]]

\* Mutant: the first configurator that targets a field wins.
configure_FirstWins(opts) == ApplyOpts(Reverse(opts), ZeroFlags)

\* configure[T](opts ...): def := new(T); each opt.Configure(def); return *def
configure(opts) == ApplyOpts(opts, ZeroFlags)

FlagLists == {<<PipeFailOn>>}

\* The configurator values of each type: both values of the four bool
\* types, and MaxProcs values below, at and above NewPipeline's 1.
BoolFields == {"PipeFail", "Buffered", "Verbose", "DryRun"}

Fields == BoolFields \cup {"MaxProcs"}

MaxProcsValues == (0 - 1) .. MaxProcsBound

AllSwitches ==
    {<<f, b>> : f \in BoolFields, b \in BOOLEAN}
        \cup {<<"MaxProcs", m>> : m \in MaxProcsValues}

\* The configurer lists WithFlags is called with, nil entries included.
OptLists == SeqsUpTo(AllSwitches \cup {NilSwitch}, MaxOpts)

\* ------------------------------------------------------------------- state
VARIABLES
    n,          \* len(p.commands)
    flags,      \* p.flags
    ctx,        \* the caller's context: "live" or "cancelled"
    input,      \* the external input's bytes
    inPos,      \* bytes of the external input consumed so far
    extOut,     \* bytes written to the external output
    stderrOut,  \* number of messages written to the error stream
    mainPc,     \* position of the caller's task in Execute
    pipes,      \* connector k: pending data, write end closed, read end closed
    wg,         \* sync.WaitGroup counter
    errChan,    \* buffered contents of errChan
    errClosed,  \* close(errChan) happened
    sent,       \* every error sent on errChan so far, in send order
    spawned,    \* stage indices whose goroutine was started
    joinPc,     \* join goroutine: "none", "waiting", "done"
    pc,         \* per stage: pending, running, returned, closed, done
    args,       \* per stage: <<ctx, input, output, stderr>> handed to Execute
    eofSeen,    \* per stage: a Read returned end-of-stream
    wcount,     \* per stage: Write calls issued
    result,     \* per stage: what Execute returned
    inSeq,      \* per stage: bytes its Reads delivered
    outSeq,     \* per stage: bytes its Writes accepted
    calls,      \* per stage: times its Execute was invoked
    firstErr,   \* Execute's local firstErr
    ret,        \* Execute's return value
    panicked,   \* send on a closed channel
    lastOpts,   \* history: the configurer list of the latest WithFlags call
    startFlags, \* history: p.flags when the latest Execute call began
    cp,         \* the state of one CopyBufferWithContext call
    runs,       \* per Execute call on the Pipeline: the call's local variables
    heap,       \* the io.Pipe and channel objects allocated so far
    pf,         \* the state of one ProcessFiles / ProcessFilesWithContext call
    ln,         \* the state of one line-reading loop over a bufio.Scanner
    cs          \* the state of one CollectInputSources call

vars == <<n, flags, ctx, input, inPos, extOut, stderrOut, mainPc, pipes,
          wg, errChan, errClosed, sent, spawned, joinPc, pc, args, eofSeen,
          wcount, result, inSeq, outSeq, calls, firstErr, ret, panicked,
          lastOpts, startFlags, cp, runs, heap, pf, ln, cs>>

extVars == <<input, inPos, extOut, stderrOut>>

orchVars == <<mainPc, wg, errChan, errClosed, sent, spawned, joinPc, firstErr, ret, panicked>>

stageVars == <<pc, args, eofSeen, wcount, result, inSeq, outSeq, calls>>

NoArgs == <<"none", NoStream, NoStream, NoStream>>

\* WithFlags has not been called on the Pipeline.
NoCall == [called |-> FALSE, opts |-> <<>>]

\* Execute calls made on one Pipeline, possibly at the same time.
Calls == 1 .. MaxCalls

\* A call that has not begun: no local variable of Execute exists yet.
IdleRun ==
    [pc |-> "idle", pipes |-> <<>>, chan |-> 0, wg |-> 0, joined |-> FALSE,
     st |-> [i \in Stages |-> "pending"], res |-> [i \in Stages |-> Nil],
     firstErr |-> Nil, ret |-> Nil, panicked |-> FALSE]

\* Objects are named by their position in the order of allocation.
EmptyHeap == [pipes |-> <<>>, chans |-> <<>>]

\* No copy is in progress.
CopyIdle == [pc |-> "idle"]

\* No file-processing call and no line loop is in progress.
FilesIdle == [pc |-> "idle"]

LinesIdle == [pc |-> "idle"]

\* No CollectInputSources call is in progress.
CollectIdle == [pc |-> "idle"]

InitEvery(inputs, copies, ctxs, fileCalls, lineLoops, collects) ==
    /\ n \in 0 .. MaxStages
    /\ flags = NewPipelineFlags
    /\ ctx \in ctxs
    /\ input \in inputs
    /\ inPos = 0
    /\ extOut = <<>>
    /\ stderrOut = 0
    /\ mainPc = "built"
    /\ pipes = <<>>
    /\ wg = 0
    /\ errChan = <<>>
    /\ errClosed = FALSE
    /\ sent = <<>>
    /\ spawned = {}
    /\ joinPc = "none"
    /\ pc = [i \in Stages |-> "pending"]
    /\ args = [i \in Stages |-> NoArgs]
    /\ eofSeen = [i \in Stages |-> FALSE]
    /\ wcount = [i \in Stages |-> 0]
    /\ result = [i \in Stages |-> Nil]
    /\ inSeq = [i \in Stages |-> <<>>]
    /\ outSeq = [i \in Stages |-> <<>>]
    /\ calls = [i \in Stages |-> 0]
    /\ firstErr = Nil
    /\ ret = Nil
    /\ panicked = FALSE
    /\ lastOpts = NoCall
    /\ startFlags = NewPipelineFlags
    /\ cp \in copies
    /\ runs = [c \in Calls |-> IdleRun]
    /\ heap = EmptyHeap
    /\ pf \in fileCalls
    /\ ln \in lineLoops
    /\ cs \in collects

InitHelpers(inputs, copies, ctxs, fileCalls, lineLoops) ==
    InitEvery(inputs, copies, ctxs, fileCalls, lineLoops, {CollectIdle})

InitAll(inputs, copies) ==
    InitHelpers(inputs, copies, {"live", "cancelled"}, {FilesIdle}, {LinesIdle})

\* A Pipeline just built; no copy is in progress.
InitWith(inputs) == InitAll(inputs, {CopyIdle})

Init == InitWith(OpaqueInputs)

\* ------------------------------------------------------- pipeline building
\* Mutant: the configurers are applied to the flags the Pipeline has.
WithFlags_Merging(opts) ==
    /\ flags' = ApplyOpts(opts, flags)
    /\ UNCHANGED <<n, ctx, pipes>>
    /\ lastOpts' = [called |-> TRUE, opts |-> opts]
    /\ UNCHANGED <<startFlags, cp, runs, heap, pf, ln, cs>>
    /\ UNCHANGED extVars
    /\ UNCHANGED orchVars
    /\ UNCHANGED stageVars

\* p.WithFlags(configurers...): p.flags = configure(configurers...)
WithFlags(opts) ==
    /\ flags' = configure(opts)
    /\ UNCHANGED <<n, ctx, pipes>>
    /\ lastOpts' = [called |-> TRUE, opts |-> opts]
    /\ UNCHANGED <<startFlags, cp, runs, heap, pf, ln, cs>>
    /\ UNCHANGED extVars
    /\ UNCHANGED orchVars
    /\ UNCHANGED stageVars

\* The caller cancels the context (context.WithCancel's cancel function).
Cancel ==
    /\ ctx = "live"
    /\ mainPc # "done"
    /\ ctx' = "cancelled"
    /\ UNCHANGED <<n, flags, pipes>>
    /\ UNCHANGED <<lastOpts, startFlags, cp, runs, heap, pf, ln, cs>>
    /\ UNCHANGED extVars
    /\ UNCHANGED orchVars
    /\ UNCHANGED stageVars

\* ----------------------------------------------------------- Execute: entry
\* Mutant: the empty-pipeline check is missing.
IsEmpty_Never(len) == FALSE

\* Line 95: if len(p.commands) == 0
IsEmpty(len) == len = 0

\* Mutant: the single-stage shortcut is missing.
IsSingle_Never(len) == FALSE

\* Line 99: if len(p.commands) == 1
IsSingle(len) == len = 1

\* Lines 95-97: return nil
ExecuteEmpty ==
    /\ mainPc = "built"
    /\ IsEmpty(n)
    /\ mainPc' = "done"
    /\ ret' = Nil
    /\ UNCHANGED <<n, flags, ctx, pipes>>
    /\ startFlags' = flags
    /\ UNCHANGED <<lastOpts, cp, runs, heap, pf, ln, cs>>
    /\ UNCHANGED extVars
    /\ UNCHANGED <<wg, errChan, errClosed, sent, spawned, joinPc, firstErr, panicked>>
    /\ UNCHANGED stageVars

\* len(p.commands) == 1: return p.commands[0].Execute(ctx, input, output, stderr)
\* The call happens in the caller's task.
ExecuteSingleCall ==
    /\ mainPc = "built"
    /\ ~IsEmpty(n)
    /\ IsSingle(n)
    /\ mainPc' = "direct"
    /\ pc' = [pc EXCEPT ![0] = "running"]
    /\ args' = [args EXCEPT ![0] = <<"ctx", Input, Output, Stderr>>]
    /\ calls' = [calls EXCEPT ![0] = @ + 1]
    /\ UNCHANGED <<n, flags, ctx, pipes>>
    /\ startFlags' = flags
    /\ UNCHANGED <<lastOpts, cp, runs, heap, pf, ln, cs>>
    /\ UNCHANGED extVars
    /\ UNCHANGED <<wg, errChan, errClosed, sent, spawned, joinPc, firstErr, ret, panicked>>
    /\ UNCHANGED <<eofSeen, wcount, result, inSeq, outSeq>>

\* Mutant: the single stage's error is subjected to the pipefail policy.
ExecuteSingleReturn_UnderPolicy ==
    /\ mainPc = "direct"
    /\ pc[0] = "returned"
    /\ mainPc' = "done"
    /\ ret' = (IF flags.PipeFail THEN result[0] ELSE Nil)
    /\ UNCHANGED <<n, flags, ctx, pipes>>
    /\ UNCHANGED <<lastOpts, startFlags, cp, runs, heap, pf, ln, cs>>
    /\ UNCHANGED extVars
    /\ UNCHANGED <<wg, errChan, errClosed, sent, spawned, joinPc, firstErr, panicked>>
    /\ UNCHANGED stageVars

\* ... and its result is Execute's result.
ExecuteSingleReturn ==
    /\ mainPc = "direct"
    /\ pc[0] = "returned"
    /\ mainPc' = "done"
    /\ ret' = result[0]
    /\ UNCHANGED <<n, flags, ctx, pipes>>
    /\ UNCHANGED <<lastOpts, startFlags, cp, runs, heap, pf, ln, cs>>
    /\ UNCHANGED extVars
    /\ UNCHANGED <<wg, errChan, errClosed, sent, spawned, joinPc, firstErr, panicked>>
    /\ UNCHANGED stageVars

\* Mutant: one connector per stage.
NumPipes_PerStage(len) == len

\* make([]*io.PipeWriter, len-1), make([]*io.PipeReader, len-1)
NumPipes(len) == len - 1

\* io.Pipe(): nothing pending, both ends open.
NewPipe == [data |-> <<>>, wclosed |-> FALSE, rclosed |-> FALSE, closes |-> 0]

\* Mutant: the collector holds a single entry.
ErrChanCap_One(len) == 1

\* make(chan error, len(p.commands))
ErrChanCap(len) == len

\* Mutant: every later stage reads the first connector.
CmdInput_FirstPipe(i) == IF i = 0 THEN Input ELSE Reader(0)

\* Lines 124-129: the stage's input.
CmdInput(i) == IF i = 0 THEN Input ELSE Reader(i - 1)

\* Lines 131-136: the stage's output.
CmdOutput(i, len) == IF i = len - 1 THEN Output ELSE Writer(i)

\* Line 139, the arguments of cmd.Execute(ctx, cmdInput, cmdOutput, stderr)
StageArgs(i, len) == <<"ctx", CmdInput(i), CmdOutput(i, len), Stderr>>

\* Mutant: at most MaxProcs stage goroutines are started.
Launched_Capped(len) == 0 .. (Min(len, flags.MaxProcs) - 1)

\* Line 116: for i, cmd := range p.commands, the indices a goroutine is
\* started for.
Launched(len) == 0 .. (len - 1)

\* Lines 103-159 up to the drain loop: allocate the connectors and the
\* collector, start one goroutine per stage (wg.Add(1) before each) and the
\* join goroutine. None of these steps waits for or reads anything another
\* task writes, so they are taken as one step; a goroutine that has not been
\* scheduled yet is a running stage that has not acted yet.
ExecuteLaunch ==
    /\ mainPc = "built"
    /\ ~IsEmpty(n)
    /\ ~IsSingle(n)
    /\ pipes' = [k \in 0 .. (NumPipes(n) - 1) |-> NewPipe]
    /\ errChan' = <<>>
    /\ errClosed' = FALSE
    /\ sent' = <<>>
    /\ spawned' = Launched(n)
    /\ wg' = Cardinality(Launched(n))
    /\ pc' = [i \in Stages |-> IF i \in Launched(n) THEN "running" ELSE pc[i]]
    /\ args' = [i \in Stages |-> IF i \in Launched(n) THEN StageArgs(i, n) ELSE args[i]]
    /\ calls' = [i \in Stages |-> IF i \in Launched(n) THEN calls[i] + 1 ELSE calls[i]]
    /\ joinPc' = "waiting"
    /\ mainPc' = "drain"
    /\ UNCHANGED <<n, flags, ctx>>
    /\ startFlags' = flags
    /\ UNCHANGED <<lastOpts, cp, runs, heap, pf, ln, cs>>
    /\ UNCHANGED extVars
    /\ UNCHANGED <<firstErr, ret, panicked>>
    /\ UNCHANGED <<eofSeen, wcount, result, inSeq, outSeq>>

\* ------------------------------------------------------------ stage tasks
\* Mutant: the last connector's write end is never closed.
HasOutputPipe_OffByOne(i, len) == i < len - 2

\* Line 142: if i < len(p.commands)-1
HasOutputPipe(i, len) == i < len - 1

\* Mutant: the output pipe is closed only when the stage succeeded.
CloseOutput_OnSuccess(i) ==
    /\ i \in spawned
    /\ pc[i] = "returned"
    /\ pc' = [pc EXCEPT ![i] = "closed"]
    /\ pipes' = IF i < n - 1 /\ result[i] = Nil
                 THEN [pipes EXCEPT ![i] = [@ EXCEPT !.wclosed = TRUE]]
                 ELSE pipes
    /\ UNCHANGED <<n, flags, ctx>>
    /\ UNCHANGED <<lastOpts, startFlags, cp, runs, heap, pf, ln, cs>>
    /\ UNCHANGED extVars
    /\ UNCHANGED orchVars
    /\ UNCHANGED <<args, eofSeen, wcount, result, inSeq, outSeq, calls>>

\* Mutant: closing a connector closes both of its ends.
CloseWrite_BothEnds(p) ==
    [p EXCEPT !.wclosed = TRUE, !.rclosed = TRUE, !.closes = @ + 1]

\* PipeWriter.Close(): marks the write end closed; the first close wins.
\* closes counts the Close calls made on the write end.
CloseWrite(p) == [p EXCEPT !.wclosed = TRUE, !.closes = @ + 1]

\* Lines 141-144: after the stage returned, close its output pipe.
CloseOutput(i) ==
    /\ i \in spawned
    /\ pc[i] = "returned"
    /\ pc' = [pc EXCEPT ![i] = "closed"]
    /\ pipes' = IF HasOutputPipe(i, n)
                 THEN [pipes EXCEPT ![i] = CloseWrite(@)]
                 ELSE pipes
    /\ UNCHANGED <<n, flags, ctx>>
    /\ UNCHANGED <<lastOpts, startFlags, cp, runs, heap, pf, ln, cs>>
    /\ UNCHANGED extVars
    /\ UNCHANGED orchVars
    /\ UNCHANGED <<args, eofSeen, wcount, result, inSeq, outSeq, calls>>

\* Mutant: the pipefail test is inverted.
ShouldRecord_Inverted(err, fl) == err # Nil /\ ~fl.PipeFail

\* Mutant: the pipefail test is missing.
ShouldRecord_IgnoresFlag(err, fl) == err # Nil

\* Mutant: the err != nil test is missing.
ShouldRecord_NilToo(err, fl) == fl.PipeFail

\* Lines 147-148: if err != nil { if p.flags.PipeFail {
ShouldRecord(err, fl) == err # Nil /\ fl.PipeFail

\* Lines 146-151 and the deferred wg.Done() of line 119: errChan <- err under
\* pipefail, then the task ends. A send blocks while the buffer is full and
\* panics on a closed channel. Nothing waits for the send itself, so the send
\* and the Done that follows it are one step.
RecordAndDone(i) ==
    /\ i \in spawned
    /\ pc[i] = "closed"
    /\ IF ShouldRecord(result[i], flags)
       THEN IF errClosed
            THEN /\ panicked' = TRUE
                 /\ UNCHANGED <<errChan, sent>>
            ELSE /\ Len(errChan) < ErrChanCap(n)
                 /\ errChan' = Append(errChan, result[i])
                 /\ sent' = Append(sent, result[i])
                 /\ UNCHANGED panicked
       ELSE UNCHANGED <<errChan, sent, panicked>>
    /\ pc' = [pc EXCEPT ![i] = "done"]
    /\ wg' = wg - 1
    /\ UNCHANGED <<n, flags, ctx, pipes>>
    /\ UNCHANGED <<lastOpts, startFlags, cp, runs, heap, pf, ln, cs>>
    /\ UNCHANGED extVars
    /\ UNCHANGED <<mainPc, errClosed, spawned, joinPc, firstErr, ret>>
    /\ UNCHANGED <<args, eofSeen, wcount, result, inSeq, outSeq, calls>>

\* ---------------------------------------------------------- join and drain
\* Mutant: the join goroutine does not wait for the stage tasks.
WaitReturns_Early(counter) == TRUE

\* Line 157: wg.Wait() returns when the counter is zero.
WaitReturns(counter) == counter = 0

\* Mutant: the join task waits and then leaves the collector open.
JoinClose_LeavesOpen ==
    /\ joinPc = "waiting"
    /\ WaitReturns(wg)
    /\ joinPc' = "done"
    /\ UNCHANGED <<n, flags, ctx, pipes>>
    /\ UNCHANGED <<lastOpts, startFlags, cp, runs, heap, pf, ln, cs>>
    /\ UNCHANGED extVars
    /\ UNCHANGED <<mainPc, wg, errChan, errClosed, sent, spawned, firstErr, ret, panicked>>
    /\ UNCHANGED stageVars

\* Lines 157-158: wg.Wait(); close(errChan)
JoinClose ==
    /\ joinPc = "waiting"
    /\ WaitReturns(wg)
    /\ joinPc' = "done"
    /\ errClosed' = TRUE
    /\ UNCHANGED <<n, flags, ctx, pipes>>
    /\ UNCHANGED <<lastOpts, startFlags, cp, runs, heap, pf, ln, cs>>
    /\ UNCHANGED extVars
    /\ UNCHANGED <<mainPc, wg, errChan, sent, spawned, firstErr, ret, panicked>>
    /\ UNCHANGED stageVars

\* Mutant: the last error received wins.
KeepFirst_Last(cur, err) == err

\* Lines 164-166: if firstErr == nil { firstErr = err }
KeepFirst(cur, err) == IF cur = Nil THEN err ELSE cur

\* Lines 163-167, one iteration of: for err := range errChan
DrainOne ==
    /\ mainPc = "drain"
    /\ errChan # <<>>
    /\ firstErr' = KeepFirst(firstErr, Head(errChan))
    /\ errChan' = Tail(errChan)
    /\ UNCHANGED <<n, flags, ctx, pipes>>
    /\ UNCHANGED <<lastOpts, startFlags, cp, runs, heap, pf, ln, cs>>
    /\ UNCHANGED extVars
    /\ UNCHANGED <<mainPc, wg, errClosed, sent, spawned, joinPc, ret, panicked>>
    /\ UNCHANGED stageVars

\* Mutant: the drain loop also ends when the context is cancelled, and
\* Execute then returns the context's error.
ExecuteReturn_OnCancel ==
    /\ mainPc = "drain"
    /\ \/ /\ errChan = <<>>
          /\ errClosed
          /\ ret' = firstErr
       \/ /\ ctx = "cancelled"
          /\ ret' = <<"ctx", n>>
    /\ mainPc' = "done"
    /\ UNCHANGED <<n, flags, ctx, pipes>>
    /\ UNCHANGED <<lastOpts, startFlags, cp, runs, heap, pf, ln, cs>>
    /\ UNCHANGED extVars
    /\ UNCHANGED <<wg, errChan, errClosed, sent, spawned, joinPc, firstErr, panicked>>
    /\ UNCHANGED stageVars

\* Line 169: the range loop ends on a closed, empty channel; return firstErr
ExecuteReturn ==
    /\ mainPc = "drain"
    /\ errChan = <<>>
    /\ errClosed
    /\ mainPc' = "done"
    /\ ret' = firstErr
    /\ UNCHANGED <<n, flags, ctx, pipes>>
    /\ UNCHANGED <<lastOpts, startFlags, cp, runs, heap, pf, ln, cs>>
    /\ UNCHANGED extVars
    /\ UNCHANGED <<wg, errChan, errClosed, sent, spawned, joinPc, firstErr, panicked>>
    /\ UNCHANGED stageVars

\* ------------------------------------------------------- stage behaviour
\* What a Command does inside Execute is its own business (src/yup.go, the
\* Command interface); the steps below are the ones visible to the pipeline.

\* A Write on an io.Pipe returns only when a reader took all of its bytes.
WriteBlocked(i) ==
    /\ args[i][3][1] = "w"
    /\ pipes[args[i][3][2]].data # <<>>

CanAct(i) ==
    /\ pc[i] = "running"
    /\ ~WriteBlocked(i)

\* PipeReader.Read with a buffer of size bytes: takes what fits of the pending
\* Write, or reports end-of-stream once the write end is closed, or
\* io.ErrClosedPipe when the read end is closed; otherwise it blocks.
PipeCanRead(p) == p.rclosed \/ p.data # <<>> \/ p.wclosed

PipeReadBytes(p, size) == IF p.rclosed THEN <<>> ELSE Take(p.data, size)

PipeReadEOF(p) == ~p.rclosed /\ p.data = <<>> /\ p.wclosed

PipeAfterRead(p, size) == IF p.rclosed THEN p ELSE [p EXCEPT !.data = Drop(@, size)]

\* The stage calls Read on the input it was given, with a buffer of size
\* bytes; the step is the Read's return, which a blocked Read waits for.
StageRead(i, size) ==
    /\ CanAct(i)
    /\ IF args[i][2] = Input
       THEN LET got == Take(Drop(input, inPos), size)
            IN  /\ inPos' = inPos + Len(got)
                /\ inSeq' = [inSeq EXCEPT ![i] = @ \o got]
                /\ eofSeen' = [eofSeen EXCEPT ![i] = @ \/ got = <<>>]
                /\ UNCHANGED pipes
       ELSE LET k == args[i][2][2]
            IN  /\ args[i][2][1] = "r"
                /\ PipeCanRead(pipes[k])
                /\ inSeq' = [inSeq EXCEPT ![i] = @ \o PipeReadBytes(pipes[k], size)]
                /\ eofSeen' = [eofSeen EXCEPT ![i] = @ \/ PipeReadEOF(pipes[k])]
                /\ pipes' = [pipes EXCEPT ![k] = PipeAfterRead(@, size)]
                /\ UNCHANGED inPos
    /\ UNCHANGED <<n, flags, ctx>>
    /\ UNCHANGED <<lastOpts, startFlags, cp, runs, heap, pf, ln, cs>>
    /\ UNCHANGED <<input, extOut, stderrOut>>
    /\ UNCHANGED orchVars
    /\ UNCHANGED <<pc, args, wcount, result, outSeq, calls>>

\* PipeWriter.Write fails with io.ErrClosedPipe when either end is closed.
PipeCanWrite(p) == ~p.wclosed /\ ~p.rclosed

PipeAfterWrite(p, chunk) == [p EXCEPT !.data = chunk]

\* The stage calls Write on the output it was given.
StageWrite(i, chunk) ==
    /\ CanAct(i)
    /\ wcount[i] < MaxWrites
    /\ wcount' = [wcount EXCEPT ![i] = @ + 1]
    /\ IF args[i][3] = Output
       THEN /\ extOut' = extOut \o chunk
            /\ outSeq' = [outSeq EXCEPT ![i] = @ \o chunk]
            /\ UNCHANGED pipes
       ELSE LET k == args[i][3][2]
            IN  /\ args[i][3][1] = "w"
                /\ IF PipeCanWrite(pipes[k])
                   THEN /\ pipes' = [pipes EXCEPT ![k] = PipeAfterWrite(@, chunk)]
                        /\ outSeq' = [outSeq EXCEPT ![i] = @ \o chunk]
                   ELSE UNCHANGED <<pipes, outSeq>>
                /\ UNCHANGED extOut
    /\ UNCHANGED <<n, flags, ctx>>
    /\ UNCHANGED <<lastOpts, startFlags, cp, runs, heap, pf, ln, cs>>
    /\ UNCHANGED <<input, inPos, stderrOut>>
    /\ UNCHANGED orchVars
    /\ UNCHANGED <<pc, args, eofSeen, result, inSeq, calls>>

\* The stage writes a message to the error stream it was given.
StageWriteStderr(i) ==
    /\ CanAct(i)
    /\ args[i][4] = Stderr
    /\ stderrOut < MaxErrWrites
    /\ stderrOut' = stderrOut + 1
    /\ UNCHANGED <<n, flags, ctx, pipes>>
    /\ UNCHANGED <<lastOpts, startFlags, cp, runs, heap, pf, ln, cs>>
    /\ UNCHANGED <<input, inPos, extOut>>
    /\ UNCHANGED orchVars
    /\ UNCHANGED stageVars

\* What a stage may return: nil, an error of its own, or ctx.Err() when the
\* context it was given is done.
StageOutcomes(i) ==
    {Nil, StageErr(i)} \cup
    (IF args[i][1] = "ctx" /\ ctx = "cancelled" THEN {CtxErr(i)} ELSE {})

\* The stage's Execute returns.
StageReturn(i, e) ==
    /\ CanAct(i)
    /\ e \in StageOutcomes(i)
    /\ pc' = [pc EXCEPT ![i] = "returned"]
    /\ result' = [result EXCEPT ![i] = e]
    /\ UNCHANGED <<n, flags, ctx, pipes>>
    /\ UNCHANGED <<lastOpts, startFlags, cp, runs, heap, pf, ln, cs>>
    /\ UNCHANGED extVars
    /\ UNCHANGED orchVars
    /\ UNCHANGED <<args, eofSeen, wcount, inSeq, outSeq, calls>>

AllErrs == {<<k, i>> : k \in {"nil", "fail", "ctx"}, i \in Stages}

\* ------------------------------------------------------------ specification
Next ==
    \/ \E opts \in FlagLists : mainPc = "built" /\ WithFlags(opts)
    \/ Cancel
    \/ ExecuteEmpty
    \/ ExecuteSingleCall
    \/ ExecuteSingleReturn
    \/ ExecuteLaunch
    \/ \E i \in Stages : StageRead(i, 1)
    \/ \E i \in Stages, chunk \in OpaqueChunks : StageWrite(i, chunk)
    \/ \E i \in Stages : StageWriteStderr(i)
    \/ \E i \in Stages, e \in AllErrs : StageReturn(i, e)
    \/ \E i \in Stages : CloseOutput(i)
    \/ \E i \in Stages : RecordAndDone(i)
    \/ JoinClose
    \/ DrainOne
    \/ ExecuteReturn

Spec == Init /\ [][Next]_vars

\* ------------------------------------------- specification for the data path
\* The same pipeline with the stages writing chunks of up to MaxChunk
\* distinguishable bytes and reading with buffers of up to MaxChunk bytes,
\* under the default flags and a live context.
InitData ==
    /\ InitWith(ExtInputs)
    /\ n >= 1
    /\ ctx = "live"

NextData ==
    \/ ExecuteSingleCall
    \/ ExecuteSingleReturn
    \/ ExecuteLaunch
    \/ \E i \in Stages, size \in BufSizes : StageRead(i, size)
    \/ \E i \in Stages, chunk \in Chunks : StageWrite(i, chunk)
    \/ \E i \in Stages, e \in AllErrs : StageReturn(i, e)
    \/ \E i \in Stages : CloseOutput(i)
    \/ \E i \in Stages : RecordAndDone(i)
    \/ JoinClose
    \/ ExecuteReturn

SpecData == InitData /\ [][NextData]_vars

\* ===================================================================== claims
Returned == mainPc = "done"

Started == mainPc # "built"

Finished(i) == pc[i] \in {"returned", "closed", "done"}

Failed(i) == Finished(i) /\ result[i] # Nil

Index(len) == {i \in Stages : i < len}

\* C1: under pipefail, for every pipeline length N >= 1, once Execute has
\* returned and some stage (at any position) returned an error, Execute's
\* return value is a non-nil error.
C1_PipefailReportsFailure ==
    (Returned /\ n >= 1 /\ flags.PipeFail /\ \E i \in Index(n) : Failed(i))
        => ret # Nil

C1_Witness ==
    /\ Returned /\ n = 3 /\ flags.PipeFail
    /\ result[0] = Nil /\ result[1] # Nil /\ result[2] = Nil
    /\ ret # Nil

\* C2: with N >= 2 and pipefail off, nothing is ever sent to the collector,
\* firstErr stays nil, and when Execute returns it returns nil with every
\* stage task finished, also when a non-terminal stage returned an error.
C2_NoPipefailDiscardsInteriorError ==
    (Started /\ n >= 2 /\ ~flags.PipeFail)
        => /\ sent = <<>>
           /\ errChan = <<>>
           /\ firstErr = Nil
           /\ Returned => /\ ret = Nil
                          /\ \A i \in Index(n) : pc[i] = "done" /\ calls[i] = 1

C2_Witness ==
    /\ Returned /\ n = 3 /\ ~flags.PipeFail
    /\ result[1] # Nil
    /\ \A i \in Index(n) : pc[i] = "done"
    /\ ret = Nil

\* C3 as stated: with pipefail off, a failing last stage still gives a nil
\* return, for every N >= 1.
C3_Original ==
    (Returned /\ n >= 1 /\ ~flags.PipeFail /\ Failed(n - 1)) => ret = Nil

\* C3 as amended: with pipefail off, a failing last stage gives a nil return
\* for every N >= 2; a pipeline of one stage returns that stage's error.
C3_NoPipefailTerminalError ==
    (Returned /\ n >= 1 /\ ~flags.PipeFail /\ Failed(n - 1))
        => /\ n >= 2 => ret = Nil
           /\ n = 1 => ret = result[0]

C3_Witness ==
    /\ Returned /\ n = 2 /\ ~flags.PipeFail
    /\ result[0] = Nil /\ result[1] # Nil
    /\ ret = Nil

\* C4: if every stage returned nil, Execute returns nil and nothing was ever
\* sent to the collector, for both pipefail settings and every N >= 0.
C4_AllSucceed ==
    (Returned /\ \A i \in Index(n) : result[i] = Nil)
        => ret = Nil /\ sent = <<>>

C4_Witness ==
    /\ Returned /\ n = 3 /\ flags.PipeFail
    /\ \A i \in Index(n) : pc[i] = "done" /\ result[i] = Nil
    /\ ret = Nil

\* C5: with N >= 2 under pipefail, Execute returns the first error sent to the
\* collector (nil when none was sent), and a returned error is the error some
\* failed stage returned; arrival order decides, not the stage index.
C5_FirstArrivalWins ==
    (Returned /\ n >= 2 /\ flags.PipeFail)
        => /\ ret = (IF sent = <<>> THEN Nil ELSE sent[1])
           /\ ret # Nil => \E i \in Index(n) : Failed(i) /\ result[i] = ret

\* Two stages failed and the higher-index stage's error is the one returned.
C5_Witness ==
    /\ Returned /\ n >= 2 /\ flags.PipeFail
    /\ result[0] # Nil /\ result[1] # Nil
    /\ ret = result[1]

\* The other order: two stages failed and the lower-index error is returned.
C5_LowerIndexFirst ==
    /\ Returned /\ n >= 2 /\ flags.PipeFail
    /\ result[0] # Nil /\ result[1] # Nil
    /\ ret = result[0]

\* C6: a pipeline of one stage invokes the stage once, in the caller's task,
\* with the caller's context and streams, returns its outcome unchanged,
\* allocates no connector and starts no task; the external streams hold what
\* the stage alone read and wrote.
C6_SingleStageDelegates ==
    n = 1
        => /\ pipes = <<>>
           /\ spawned = {}
           /\ joinPc = "none"
           /\ wg = 0
           /\ calls[0] = (IF Started THEN 1 ELSE 0)
           /\ Started => args[0] = <<"ctx", <<"input", 0>>, <<"output", 0>>, <<"stderr", 0>>>>
           /\ extOut = outSeq[0]
           /\ inSeq[0] = SubSeq(input, 1, inPos)
           /\ Returned => Finished(0) /\ ret = result[0]

C6_Witness ==
    /\ n = 1 /\ Returned
    /\ result[0] # Nil /\ ret = result[0]
    /\ extOut # <<>> /\ inPos > 0
    /\ ~flags.PipeFail

\* C7: a pipeline of no stage returns nil in one step whatever the flags and
\* the context; no stage is invoked, no stream is touched, no connector is
\* allocated and no task is started.
C7_EmptyPipeline ==
    n = 0
        => /\ inPos = 0
           /\ extOut = <<>>
           /\ stderrOut = 0
           /\ pipes = <<>>
           /\ spawned = {}
           /\ joinPc = "none"
           /\ \A i \in Stages : calls[i] = 0 /\ pc[i] = "pending"
           /\ mainPc \in {"built", "done"}
           /\ Returned => ret = Nil

C7_Witness ==
    /\ n = 0 /\ Returned /\ ret = Nil
    /\ flags.PipeFail /\ ctx = "cancelled"

\* C8: with N >= 2, once Execute has started there are exactly N-1
\* connectors, stage 0 reads the external input, stage i > 0 reads connector
\* i-1, stage N-1 writes the external output, stage i < N-1 writes connector i,
\* every connector end is held by exactly one stage, and all stages get the
\* same context and error stream.
C8_ChainWiring ==
    (Started /\ n >= 2)
        => /\ DOMAIN pipes = 0 .. (n - 2)
           /\ Cardinality(DOMAIN pipes) = n - 1
           /\ args[0][2] = <<"input", 0>>
           /\ args[n - 1][3] = <<"output", 0>>
           /\ \A i \in 1 .. (n - 1) : args[i][2] = <<"r", i - 1>>
           /\ \A i \in 0 .. (n - 2) : args[i][3] = <<"w", i>>
           /\ \A k \in DOMAIN pipes :
                /\ Cardinality({i \in Index(n) : args[i][2] = <<"r", k>>}) = 1
                /\ Cardinality({i \in Index(n) : args[i][3] = <<"w", k>>}) = 1
           /\ \A i \in Index(n) : args[i][1] = "ctx" /\ args[i][4] = <<"stderr", 0>>
           /\ \A i \in Index(n) : calls[i] = 1

C8_Witness ==
    /\ Started /\ n = 3
    /\ args[1][2] = <<"r", 0>> /\ args[1][3] = <<"w", 1>>
    /\ inSeq[2] # <<>>

\* Stage functions used to state the composition: a stage that copies its
\* input, and one that flips every byte.
StageFns == {"id", "flip"}

ApplyFn(f, s) == IF f = "flip" THEN [j \in 1 .. Len(s) |-> 1 - s[j]] ELSE s

RECURSIVE Compose(_, _, _)
Compose(f, len, s) ==
    IF len = 0 THEN s ELSE ApplyFn(f[len - 1], Compose(f, len - 1, s))

\* Stage i read its input to end-of-stream, wrote ApplyFn(f, input) and returned.
ActsAs(i, f) == Finished(i) /\ eofSeen[i] /\ outSeq[i] = ApplyFn(f, inSeq[i])

\* C9: what stage i+1 has read from connector i is at every moment a prefix
\* of what stage i has written to it, and is all of it once stage i+1 has seen
\* end-of-stream; the first stage reads the external input in order and the
\* last stage's writes are the external output; hence, when every stage acts
\* as a stream function read to end-of-stream, the external output is the
\* composition of these functions applied to the external input.
C9_ConnectorsPreserveData ==
    (Started /\ n >= 1)
        => /\ inSeq[0] = SubSeq(input, 1, inPos)
           /\ eofSeen[0] => inSeq[0] = input
           /\ extOut = outSeq[n - 1]
           /\ \A i \in 0 .. (n - 2) :
                /\ IsPrefix(inSeq[i + 1], outSeq[i])
                /\ eofSeen[i + 1] => inSeq[i + 1] = outSeq[i]
           /\ \A f \in [Index(n) -> StageFns] :
                (\A i \in Index(n) : ActsAs(i, f[i]))
                    => extOut = Compose(f, n, input)

\* Three flipping stages turn the input 0 into 1.
C9_Witness ==
    /\ Returned /\ n = 3 /\ input = <<0>>
    /\ \A i \in Index(n) : ActsAs(i, "flip")
    /\ outSeq[0] = <<1>> /\ outSeq[1] = <<0>>
    /\ extOut = <<1>>

\* A two-byte chunk of which the reader has taken the first byte only.
C9_PartialRead ==
    /\ Started /\ n >= 2
    /\ outSeq[0] = <<0, 1>> /\ inSeq[1] = <<0>>

\* ---------------------------------------------- specification with fairness
\* The Go scheduler eventually runs every goroutine that can run: the steps
\* of the orchestrator's own code are weakly fair. A stage's Read is weakly
\* fair too: a stage that is free to read, and stays so, does read.
Fairness ==
    /\ \A i \in Stages : WF_vars(CloseOutput(i))
    /\ \A i \in Stages : WF_vars(RecordAndDone(i))
    /\ \A i \in Stages : WF_vars(StageRead(i, 1))
    /\ WF_vars(JoinClose)
    /\ WF_vars(DrainOne)
    /\ WF_vars(ExecuteReturn)

\* Pipelines of two or more stages under a context that stays live, with
\* either pipefail setting.
InitFair ==
    /\ Init
    /\ n >= 2
    /\ ctx = "live"

NextFair ==
    \/ \E opts \in FlagLists : mainPc = "built" /\ WithFlags(opts)
    \/ ExecuteLaunch
    \/ \E i \in Stages : StageRead(i, 1)
    \/ \E i \in Stages, chunk \in OpaqueChunks : StageWrite(i, chunk)
    \/ \E i \in Stages, e \in AllErrs : StageReturn(i, e)
    \/ \E i \in Stages : CloseOutput(i)
    \/ \E i \in Stages : RecordAndDone(i)
    \/ JoinClose
    \/ DrainOne
    \/ ExecuteReturn

FairSpec == InitFair /\ [][NextFair]_vars /\ Fairness

NonTerminal == 0 .. (MaxStages - 2)

ReturnedNonTerminal(i) == i \in spawned /\ i < n - 1 /\ pc[i] = "returned"

\* C10: after a non-terminal stage's Execute has returned, with nil or with
\* an error and under either pipefail setting, the write end of its connector
\* is eventually closed, and the next stage, if it keeps reading, eventually
\* sees end-of-stream (unless it returns first or is held by its own Write).
C10_DownstreamSeesEOF ==
    \A i \in NonTerminal :
        /\ ReturnedNonTerminal(i) ~> (i \in DOMAIN pipes /\ pipes[i].wclosed)
        /\ ReturnedNonTerminal(i)
               ~> (eofSeen[i + 1] \/ pc[i + 1] # "running" \/ WriteBlocked(i + 1))

\* A failed non-terminal stage, pipefail off, its connector closed and the
\* next stage having read end-of-stream from it.
C10_Witness ==
    /\ n = 3 /\ ~flags.PipeFail
    /\ Failed(1) /\ pipes[1].wclosed
    /\ eofSeen[2] /\ inSeq[2] = <<>>

\* ------------------------------------------------- closing the connectors
\* Stage i's error is in the collector (or has been taken out of it).
StageRecorded(i) == \E j \in 1 .. Len(sent) : sent[j][2] = i

CloseInv ==
    (Started /\ n >= 2) =>
        \A k \in 0 .. (n - 2) :
            /\ pipes[k].closes = (IF pc[k] \in {"closed", "done"} THEN 1 ELSE 0)
            /\ pipes[k].wclosed <=> pipes[k].closes = 1
            /\ pc[k] = "running" => ~pipes[k].wclosed
            /\ StageRecorded(k) => pipes[k].wclosed
            /\ Returned => pipes[k].wclosed

CloseStep ==
    \A k \in Stages :
        (k \in DOMAIN pipes /\ k \in DOMAIN pipes' /\ pipes'[k] # pipes[k]
         /\ pipes'[k].closes # pipes[k].closes)
            => /\ pc[k] = "returned"
               /\ pc'[k] = "closed"
               /\ pipes'[k].closes = pipes[k].closes + 1

\* C11: within one Execute call (N >= 2) the write end of connector i is
\* closed exactly once, in a step of stage i's own task taken after the
\* stage's Execute returned and before its error is recorded; it is never
\* closed while stage i is running, and when Execute has returned all N-1
\* write ends are closed.
C11_WriteEndClosedOnce == []CloseInv /\ [][CloseStep]_vars

\* Execute has returned for three stages; the first stage failed, its
\* error was recorded, and both connectors were closed once.
C11_Witness ==
    /\ Returned /\ n = 3
    /\ StageRecorded(0)
    /\ pipes[0].closes = 1 /\ pipes[1].closes = 1

\* ------------------------------------------------------------ join barrier
JoinInv ==
    (Started /\ n >= 2) =>
        /\ Returned => \A i \in Index(n) : pc[i] = "done"
        /\ errClosed => \A i \in Index(n) : pc[i] = "done"
        /\ errClosed <=> joinPc = "done"
        /\ ~panicked

JoinStep ==
    /\ errClosed => (errClosed' /\ sent' = sent)
    /\ (errClosed' # errClosed) => (joinPc = "waiting" /\ joinPc' = "done")

\* C12: for N >= 2 Execute has not returned while any of the N stage tasks
\* is unfinished, even when an error has already been received; the
\* collector is closed once, by the join goroutine's single step, only
\* after all N stage tasks have finished, and nothing is sent to it
\* afterwards (no send on a closed channel).
C12_JoinBarrier == []JoinInv /\ [][JoinStep]_vars

\* The caller has already received an error from the collector while the
\* last of three stages is still running: Execute has not returned and the
\* collector is still open.
C12_Witness ==
    /\ n = 3 /\ mainPc = "drain"
    /\ firstErr # Nil
    /\ pc[2] = "running"
    /\ ~errClosed

\* -------------------------------------------------- building the flags
\* A Pipeline from NewPipeline on which WithFlags is called, any number of
\* times, with configurer lists of every type.
InitFlags == Init /\ n = MaxStages /\ ctx = "live"

NextFlags == \E opts \in OptLists : WithFlags(opts)

SpecFlags == InitFlags /\ [][NextFlags]_vars

\* The positions of opts whose configurator targets field f.
Targets(opts, f) == {j \in 1 .. Len(opts) : opts[j][1] = f}

Max(S) == CHOOSE x \in S : \A y \in S : y <= x

LastValue(opts, f) ==
    IF Targets(opts, f) = {} THEN ZeroFlags[f]
    ELSE opts[Max(Targets(opts, f))][2]

Swap(opts, a, b) ==
    [j \in 1 .. Len(opts) |->
        IF j = a THEN opts[b] ELSE IF j = b THEN opts[a] ELSE opts[j]]

\* Pairs of positions of opts holding two (non-nil) configurators.
Pairs(opts) ==
    {ab \in (1 .. Len(opts)) \X (1 .. Len(opts)) :
        /\ ab[1] < ab[2]
        /\ ~IsNilSwitch(opts[ab[1]])
        /\ ~IsNilSwitch(opts[ab[2]])}

LastWriterWins ==
    lastOpts.called =>
        \A f \in Fields : flags[f] = LastValue(lastOpts.opts, f)

\* Swapping any two configurators of the list: of different fields never
\* changes the result, of one field with different values always does.
SwapAny ==
    lastOpts.called =>
        LET opts == lastOpts.opts IN
        \A ab \in Pairs(opts) :
            LET a == ab[1]
                b == ab[2]
            IN  IF opts[a][1] # opts[b][1]
                THEN configure(Swap(opts, a, b)) = flags
                ELSE opts[a][2] # opts[b][2]
                         => configure(Swap(opts, a, b)) # flags

\* The same, restricted to where it holds: two configurators of different
\* fields with no configurator of either field between them, and two of
\* one field with different values, which change the result exactly when
\* no later configurator targets that field.
SwapLocal ==
    lastOpts.called =>
        LET opts == lastOpts.opts IN
        \A ab \in Pairs(opts) :
            LET a == ab[1]
                b == ab[2]
                between == {j \in 1 .. Len(opts) : a < j /\ j < b}
                after == {j \in 1 .. Len(opts) : b < j}
            IN  IF opts[a][1] # opts[b][1]
                THEN (\A j \in between : opts[j][1] \notin {opts[a][1], opts[b][1]})
                         => configure(Swap(opts, a, b)) = flags
                ELSE opts[a][2] # opts[b][2]
                         => (configure(Swap(opts, a, b)) # flags
                                <=> \A j \in after : opts[j][1] # opts[b][1])

\* C13 as stated: last writer wins per field for every list, and swapping
\* any two configurators of different fields keeps the result while
\* swapping any two of one field with different values changes it.
C13_Original == LastWriterWins /\ SwapAny

\* C13: for every configurer list (none is rejected, a negative MaxProcs
\* included) each field ends with the value of the last configurator that
\* targets it; swapping two configurators of different fields keeps the
\* result when no configurator of either field lies between them, and
\* swapping two of one field with different values changes the result
\* exactly when no later configurator targets that field.
C13_LastWriterWins == LastWriterWins /\ SwapLocal

\* A list that sets MaxProcs twice, last to a negative value, with another
\* field between: the negative value is stored.
C13_Witness ==
    /\ lastOpts.called
    /\ lastOpts.opts = <<<<"MaxProcs", 2>>, <<"PipeFail", TRUE>>, <<"MaxProcs", 0 - 1>>>>
    /\ flags.MaxProcs = 0 - 1
    /\ flags.PipeFail

Front(s) == SubSeq(s, 1, Len(s) - 1)

\* C14: a configurator of any type, applied to any flags value, sets its own
\* field and leaves the other four as they were; the flags a list produces
\* differ from what the list without its last configurator produces in
\* that configurator's field only; and a field no configurator of the list
\* targets has the value of the fresh (zero) struct.
C14_ConfiguratorFrame ==
    /\ \A sw \in AllSwitches :
           /\ Configure(sw, flags)[sw[1]] = sw[2]
           /\ \A f \in Fields \ {sw[1]} : Configure(sw, flags)[f] = flags[f]
    /\ lastOpts.called =>
           LET opts == lastOpts.opts IN
           /\ (opts # <<>> /\ ~IsNilSwitch(opts[Len(opts)])) =>
                  \A f \in Fields \ {opts[Len(opts)][1]} :
                      flags[f] = configure(Front(opts))[f]
           /\ \A f \in Fields :
                  Targets(opts, f) = {} => flags[f] = ZeroFlags[f]

\* Verbose and MaxProcs were configured: they hold the configured values
\* and the three fields no configurator targeted are zero.
C14_Witness ==
    /\ lastOpts.called
    /\ lastOpts.opts = <<<<"Verbose", TRUE>>, <<"MaxProcs", 2>>>>
    /\ flags = [ZeroFlags EXCEPT !.Verbose = TRUE, !.MaxProcs = 2]

\* C15: the concurrency cap is 1 after NewPipeline, and is still 1 after
\* WithFlags was called with a list that holds no MaxProcs configurator.
C15_DefaultCapKept ==
    /\ ~lastOpts.called => flags.MaxProcs = 1
    /\ (lastOpts.called /\ Targets(lastOpts.opts, "MaxProcs") = {})
           => flags.MaxProcs = 1

\* WithFlags was called with a PipeFail configurator only: the reduction
\* started from the zero struct and the cap of NewPipeline is lost.
C15_Witness ==
    /\ lastOpts.called
    /\ lastOpts.opts = <<<<"PipeFail", TRUE>>>>
    /\ flags.MaxProcs = 0

\* ------------------------------------------- WithFlags during a run
\* WithFlags has no guard of its own: a caller holding the *Pipeline can call
\* it while Execute is in progress. Its write of p.flags is then concurrent
\* with the stage goroutines' reads at line 148 (unsynchronised): a read
\* sees the value before or after the write, which is the order of the
\* WithFlags step and the RecordAndDone step here.
ReflagLists == {<<PipeFailOn>>, <<PipeFailOff>>}

InitReflag == Init /\ n >= 2 /\ ctx = "live"

NextReflag ==
    \/ \E opts \in ReflagLists : WithFlags(opts)
    \/ ExecuteLaunch
    \/ \E i \in Stages : StageRead(i, 1)
    \/ \E i \in Stages, chunk \in OpaqueChunks : StageWrite(i, chunk)
    \/ \E i \in Stages, e \in AllErrs : StageReturn(i, e)
    \/ \E i \in Stages : CloseOutput(i)
    \/ \E i \in Stages : RecordAndDone(i)
    \/ JoinClose
    \/ DrainOne
    \/ ExecuteReturn

SpecReflag == InitReflag /\ [][NextReflag]_vars

\* C16: every stage failure of one Execute call is judged under the
\* pipefail value the flags had when the call began (recorded exactly when
\* that value is on), WithFlags calls during the run notwithstanding, so
\* that two failures of one run are never judged differently.
C16_FlagsFrozen ==
    \A i \in Index(n) :
        (pc[i] = "done" /\ result[i] # Nil)
            => (StageRecorded(i) <=> startFlags.PipeFail)

\* Two stages of one run failed; the first was judged with pipefail off
\* (the value at the start of the call), the second with pipefail on.
C16_Witness ==
    /\ n = 3 /\ ~startFlags.PipeFail
    /\ pc[0] = "done" /\ result[0] # Nil /\ ~StageRecorded(0)
    /\ pc[1] = "done" /\ result[1] # Nil /\ StageRecorded(1)

\* ------------------------------------------------- launching the stages
\* Pipelines whose flags carry a MaxProcs below, at and above the number of
\* stages, or the Buffered flag, or pipefail with MaxProcs 1, configured
\* before Execute is called.
ProcLists ==
    {<<<<"MaxProcs", m>>>> : m \in {0 - 1, 0, MaxStages + 1}}
        \cup {<<<<"Buffered", TRUE>>>>}
        \cup {<<PipeFailOn, <<"MaxProcs", 1>>>>}

InitProcs == Init /\ n >= 2 /\ ctx = "live"

NextProcs ==
    \/ \E opts \in ProcLists : mainPc = "built" /\ WithFlags(opts)
    \/ ExecuteLaunch
    \/ \E i \in Stages : StageRead(i, 1)
    \/ \E i \in Stages, chunk \in OpaqueChunks : StageWrite(i, chunk)
    \/ \E i \in Stages, e \in AllErrs : StageReturn(i, e)
    \/ \E i \in Stages : CloseOutput(i)
    \/ \E i \in Stages : RecordAndDone(i)
    \/ JoinClose
    \/ DrainOne
    \/ ExecuteReturn

SpecProcs == InitProcs /\ [][NextProcs]_vars

LaunchInv ==
    (Started /\ n >= 2) =>
        /\ spawned = Index(n)
        /\ \A i \in Index(n) : calls[i] = 1 /\ pc[i] # "pending"
        /\ \A i \in Stages \ Index(n) : calls[i] = 0 /\ pc[i] = "pending"

\* A stage's state only moves forward: pending to running at the launch,
\* running to returned (with nil or an error), never back.
LaunchStep ==
    \A i \in Stages :
        /\ (pc[i] = "pending" /\ pc'[i] # "pending") => pc'[i] = "running"
        /\ (pc[i] \notin {"pending", "running"}) => pc'[i] \notin {"pending", "running"}
        /\ (pc[i] = "running" /\ pc'[i] # "running") => pc'[i] = "returned"
        /\ Finished(i) => result'[i] = result[i]

nonCtxVars ==
    <<n, flags, input, inPos, extOut, stderrOut, mainPc, pipes, wg, errChan,
      errClosed, sent, spawned, joinPc, pc, args, eofSeen, wcount, result,
      inSeq, outSeq, calls, firstErr, ret, panicked, lastOpts, startFlags, cp, runs, heap, pf, ln, cs>>

\* A Read by stage i on its connector would block: nothing is pending and
\* neither end is closed.
ReadBlocked(i) ==
    /\ pc[i] = "running"
    /\ args[i][2][1] = "r"
    /\ ~PipeCanRead(pipes[args[i][2][2]])

\* Stage i is held in a Write whose reader has gone without closing the
\* read end: nothing can release it.
Stuck(i) ==
    /\ pc[i] = "running"
    /\ WriteBlocked(i)
    /\ pc[i + 1] # "running"

\* A step that cancels the context changes nothing else, enables and
\* disables no step of the orchestrator, and releases no stage blocked on
\* a connector.
CancelStep ==
    (ctx' # ctx) =>
        /\ UNCHANGED nonCtxVars
        /\ (ENABLED ExecuteEmpty)' <=> ENABLED ExecuteEmpty
        /\ (ENABLED ExecuteSingleCall)' <=> ENABLED ExecuteSingleCall
        /\ (ENABLED ExecuteSingleReturn)' <=> ENABLED ExecuteSingleReturn
        /\ (ENABLED ExecuteLaunch)' <=> ENABLED ExecuteLaunch
        /\ (ENABLED JoinClose)' <=> ENABLED JoinClose
        /\ (ENABLED DrainOne)' <=> ENABLED DrainOne
        /\ (ENABLED ExecuteReturn)' <=> ENABLED ExecuteReturn
        /\ \A i \in Stages :
               /\ (ENABLED CloseOutput(i))' <=> ENABLED CloseOutput(i)
               /\ (ENABLED RecordAndDone(i))' <=> ENABLED RecordAndDone(i)
               /\ (ENABLED StageRead(i, 1))' <=> ENABLED StageRead(i, 1)
               /\ ReadBlocked(i)' <=> ReadBlocked(i)
               /\ WriteBlocked(i)' <=> WriteBlocked(i)

\* Whatever the context is, every stage is launched, a stuck stage stays
\* stuck and Execute returns nil or an error some stage returned.
CtxInv ==
    /\ (Started /\ n >= 2) => spawned = Index(n)
    /\ Returned =>
           \/ ret = Nil
           \/ \E i \in Index(n) : Finished(i) /\ result[i] = ret

StuckStep ==
    \A i \in NonTerminal :
        (i < n - 1 /\ Started /\ Stuck(i)) => (Stuck(i)' /\ ~Returned')

\* C18: the orchestrator does not read the context: cancelling it changes
\* no other state and neither enables nor disables any orchestrator step or
\* connector read or write; with a context cancelled on entry or during the
\* run every stage is still launched, a stage held on a connector stays
\* held (Execute then never returns), and Execute returns nil or an error
\* that a stage returned, never a cancellation error of its own.
C18_ContextNotRead == []CtxInv /\ [][CancelStep]_vars /\ [][StuckStep]_vars

\* The context is cancelled, the first stage is held in a Write whose
\* reader has returned, and every other task has finished: Execute is
\* blocked for good.
C18_Witness ==
    /\ n = 2 /\ ctx = "cancelled"
    /\ Stuck(0)
    /\ pc[1] = "done"
    /\ mainPc = "drain"

\* ------------------------------------------- several calls on one Pipeline
\* Execute's connectors, collector and wait group are local variables of
\* the call (lines 104, 105, 112, 113); the Pipeline's commands and flags
\* are shared by every call. Each call c has its locals in runs[c]; the
\* objects they refer to live in heap. Connector contents are left out
\* here: a stage returns when it chooses to.
callFrame ==
    <<ctx, input, inPos, extOut, stderrOut, mainPc, pipes, wg, errChan,
      errClosed, sent, spawned, joinPc, pc, args, eofSeen, wcount, result,
      inSeq, outSeq, calls, firstErr, ret, panicked, startFlags, cp, pf, ln, cs>>

\* The error stage i returns in call c.
CallErr(c, i) == <<"fail", i, c>>

\* Mutant: the connectors and the collector are kept with the Pipeline and
\* used again by every call.
FreshIds_Cached(allocated, k) == [j \in 1 .. k |-> j]

\* Lines 107-109 and 113: io.Pipe() and make() return new objects, distinct
\* from every object allocated before.
FreshIds(allocated, k) == [j \in 1 .. k |-> allocated + j]

\* The heap after the objects ids are initialised to obj.
Allocate(objs, ids, obj) ==
    LET top == Max({Len(objs)} \cup {ids[j] : j \in 1 .. Len(ids)})
    IN  [x \in 1 .. top |->
            IF \E j \in 1 .. Len(ids) : ids[j] = x THEN obj ELSE objs[x]]

NewChan == [buf |-> <<>>, closed |-> FALSE]

\* Lines 95-97 in call c.
CallEmpty(c) ==
    /\ runs[c].pc = "idle"
    /\ IsEmpty(n)
    /\ runs' = [runs EXCEPT ![c].pc = "done", ![c].ret = Nil]
    /\ UNCHANGED <<n, flags, lastOpts, heap>>
    /\ UNCHANGED callFrame

\* Lines 99-101 in call c: the single stage is called directly.
CallSingle(c) ==
    /\ runs[c].pc = "idle"
    /\ ~IsEmpty(n)
    /\ IsSingle(n)
    /\ runs' = [runs EXCEPT ![c].pc = "direct", ![c].st[0] = "running"]
    /\ UNCHANGED <<n, flags, lastOpts, heap>>
    /\ UNCHANGED callFrame

CallSingleReturn(c) ==
    /\ runs[c].pc = "direct"
    /\ runs[c].st[0] = "returned"
    /\ runs' = [runs EXCEPT ![c].pc = "done", ![c].ret = runs[c].res[0]]
    /\ UNCHANGED <<n, flags, lastOpts, heap>>
    /\ UNCHANGED callFrame

\* Lines 103-159 in call c: allocate the connectors and the collector and
\* start the stage goroutines and the join goroutine.
CallLaunch(c) ==
    /\ runs[c].pc = "idle"
    /\ ~IsEmpty(n)
    /\ ~IsSingle(n)
    /\ LET pids == FreshIds(Len(heap.pipes), NumPipes(n))
           cids == FreshIds(Len(heap.chans), 1)
       IN  /\ heap' = [pipes |-> Allocate(heap.pipes, pids, NewPipe),
                       chans |-> Allocate(heap.chans, cids, NewChan)]
           /\ runs' = [runs EXCEPT
                  ![c].pc = "drain",
                  ![c].pipes = pids,
                  ![c].chan = cids[1],
                  ![c].wg = Cardinality(Launched(n)),
                  ![c].st = [i \in Stages |->
                               IF i \in Launched(n) THEN "running" ELSE "pending"]]
    /\ UNCHANGED <<n, flags, lastOpts>>
    /\ UNCHANGED callFrame

\* Line 139 in call c: stage i's Execute returns nil or an error.
CallStageReturn(c, i, e) ==
    /\ runs[c].st[i] = "running"
    /\ e \in {Nil, CallErr(c, i)}
    /\ runs' = [runs EXCEPT ![c].st[i] = "returned", ![c].res[i] = e]
    /\ UNCHANGED <<n, flags, lastOpts, heap>>
    /\ UNCHANGED callFrame

\* Lines 141-151 and 119 in call c: close the stage's output connector,
\* record its error under pipefail, wg.Done(). None of the three waits.
CallStageFinish(c, i) ==
    /\ runs[c].pc = "drain"
    /\ runs[c].st[i] = "returned"
    /\ LET r == runs[c]
           closedPipes ==
               IF HasOutputPipe(i, n)
               THEN [heap.pipes EXCEPT ![r.pipes[i + 1]] = CloseWrite(@)]
               ELSE heap.pipes
           record == ShouldRecord(r.res[i], flags)
           ch == heap.chans[r.chan]
       IN  /\ (record /\ ~ch.closed) => Len(ch.buf) < ErrChanCap(n)
           /\ heap' = [pipes |-> closedPipes,
                       chans |-> IF record /\ ~ch.closed
                                 THEN [heap.chans EXCEPT ![r.chan].buf = Append(@, r.res[i])]
                                 ELSE heap.chans]
           /\ runs' = [runs EXCEPT
                  ![c].st[i] = "done",
                  ![c].wg = @ - 1,
                  ![c].panicked = @ \/ (record /\ ch.closed)]
    /\ UNCHANGED <<n, flags, lastOpts>>
    /\ UNCHANGED callFrame

\* Lines 156-159 in call c.
CallJoin(c) ==
    /\ runs[c].pc = "drain"
    /\ ~runs[c].joined
    /\ WaitReturns(runs[c].wg)
    /\ runs' = [runs EXCEPT ![c].joined = TRUE]
    /\ heap' = [heap EXCEPT !.chans[runs[c].chan].closed = TRUE]
    /\ UNCHANGED <<n, flags, lastOpts>>
    /\ UNCHANGED callFrame

\* Lines 163-167 in call c.
CallDrain(c) ==
    /\ runs[c].pc = "drain"
    /\ heap.chans[runs[c].chan].buf # <<>>
    /\ runs' = [runs EXCEPT
           ![c].firstErr = KeepFirst(@, Head(heap.chans[runs[c].chan].buf))]
    /\ heap' = [heap EXCEPT !.chans[runs[c].chan].buf = Tail(@)]
    /\ UNCHANGED <<n, flags, lastOpts>>
    /\ UNCHANGED callFrame

\* Line 169 in call c.
CallReturn(c) ==
    /\ runs[c].pc = "drain"
    /\ heap.chans[runs[c].chan].buf = <<>>
    /\ heap.chans[runs[c].chan].closed
    /\ runs' = [runs EXCEPT ![c].pc = "done", ![c].ret = runs[c].firstErr]
    /\ UNCHANGED <<n, flags, lastOpts, heap>>
    /\ UNCHANGED callFrame

AllCallErrs == {Nil} \cup {CallErr(c, i) : c \in Calls, i \in Stages}

InitCalls == Init /\ ctx = "live"

NextCalls ==
    \/ \E opts \in FlagLists : WithFlags(opts)
    \/ \E c \in Calls : CallEmpty(c)
    \/ \E c \in Calls : CallSingle(c)
    \/ \E c \in Calls : CallSingleReturn(c)
    \/ \E c \in Calls : CallLaunch(c)
    \/ \E c \in Calls, i \in Stages, e \in AllCallErrs : CallStageReturn(c, i, e)
    \/ \E c \in Calls, i \in Stages : CallStageFinish(c, i)
    \/ \E c \in Calls : CallJoin(c)
    \/ \E c \in Calls : CallDrain(c)
    \/ \E c \in Calls : CallReturn(c)

SpecCalls == InitCalls /\ [][NextCalls]_vars

\* The objects call c holds.
PipeIdsOf(c) == {runs[c].pipes[j] : j \in 1 .. Len(runs[c].pipes)}

Launching(c) == runs[c].pc = "idle" /\ runs'[c].pc = "drain"

CallsInv ==
    /\ \A c \in Calls :
           (runs[c].pc \in {"drain", "done"} /\ n >= 2) =>
               /\ Len(runs[c].pipes) = n - 1
               /\ Cardinality(PipeIdsOf(c)) = n - 1
               /\ runs[c].chan \in 1 .. Len(heap.chans)
               /\ ~runs[c].panicked
    /\ \A c \in Calls, d \in Calls :
           (c # d /\ n >= 2 /\ runs[c].pc # "idle" /\ runs[d].pc # "idle") =>
               /\ PipeIdsOf(c) \cap PipeIdsOf(d) = {}
               /\ runs[c].chan # runs[d].chan
    /\ \A c \in Calls :
           runs[c].pc = "done" =>
               \/ runs[c].ret = Nil
               \/ \E i \in Index(n) : runs[c].ret = CallErr(c, i)

CallsStep ==
    /\ n' = n
    /\ (runs' # runs) => flags' = flags
    /\ \A c \in Calls :
           Launching(c) =>
               /\ \A j \in 1 .. Len(runs'[c].pipes) :
                      runs'[c].pipes[j] > Len(heap.pipes)
               /\ runs'[c].chan > Len(heap.chans)
               /\ \A d \in Calls \ {c} : runs'[d] = runs[d]
               /\ \A x \in 1 .. Len(heap.pipes) : heap'.pipes[x] = heap.pipes[x]
               /\ \A x \in 1 .. Len(heap.chans) : heap'.chans[x] = heap.chans[x]

\* C19: no step of any Execute call changes the Pipeline's stage list or
\* flags; every call with N >= 2 allocates N-1 connectors and a collector
\* that did not exist before, leaving existing ones as they are; two calls
\* on one Pipeline, one after the other or overlapping, never hold the same
\* connector or collector, and a call returns only its own stages' errors.
C19_CallsIndependent == []CallsInv /\ [][CallsStep]_vars

\* Two calls on a three-stage Pipeline are in progress at the same time,
\* each with a stage finished and one still running.
C19_Witness ==
    /\ n = 3
    /\ \A c \in Calls :
           /\ runs[c].pc = "drain"
           /\ runs[c].st[0] = "done"
           /\ runs[c].st[2] = "running"
    /\ PipeIdsOf(1) \cap PipeIdsOf(2) = {}

\* ------------------------------------------------ CopyBufferWithContext
\* src/helpers.go, lines 398-456. cp holds one call: the bytes the source
\* yields (src), how many were read (pos), what the destination received
\* (dst), the buffer, the running count and the result.
EOF == <<"EOF", 0>>

ReadErr == <<"read error", 0>>

WriteErr == <<"write error", 0>>

InvalidWrite == <<"invalid write result", 0>>

ErrShortWrite == <<"short write", 0>>

CtxCancelled == <<"context canceled", 0>>

\* Line 413: size := 32 * 1024
DefaultBufSize == 32768

\* Lines 412-422: the buffer allocated when buf is nil: 32 KiB, or the
\* LimitedReader's N when that is smaller, but at least 1.
AllocSize(limited, N) ==
    IF limited /\ DefaultBufSize > N
    THEN (IF N < 1 THEN 1 ELSE N)
    ELSE DefaultBufSize

\* What a source yields: an io.LimitedReader yields at most N bytes.
Yield(data, limited, N) == IF limited THEN Take(data, N) ELSE data

SrcData == SeqsUpTo(Bytes, MaxSrc)

\* The caller's buffers: nil, or non-nil of length 0 .. MaxBuf.
BufLens == 0 .. MaxBuf

\* A call about to begin: CopyBufferWithContext(ctx, dst, src, buf), or
\* CopyWithContext(ctx, dst, src), which passes a nil buffer (line 401).
CopyCall(fn, data, limited, N, bufNil, bufLen, srcFaulty, dstFaulty) ==
    [pc |-> "entry", fn |-> fn, src |-> Yield(data, limited, N),
     limited |-> limited, N |-> N, bufNil |-> bufNil, blen |-> bufLen,
     srcFaulty |-> srcFaulty, dstFaulty |-> dstFaulty,
     pos |-> 0, dst |-> <<>>, written |-> 0, ret |-> <<0, Nil>>]

CopyFns == {"CopyWithContext", "CopyBufferWithContext"}

\* The calls explored: both functions, every source (plain or behind an
\* io.LimitedReader), every buffer, sound and faulty sources and
\* destinations.
CopyCalls ==
    {CopyCall(fn, data, limited, N, bufNil, bufLen, srcFaulty, dstFaulty) :
        fn \in CopyFns, data \in SrcData, limited \in BOOLEAN, N \in 0 .. MaxSrc,
        bufNil \in BOOLEAN, bufLen \in BufLens,
        srcFaulty \in BOOLEAN, dstFaulty \in BOOLEAN}

CopyStarts ==
    {c \in CopyCalls :
        /\ c.fn = "CopyWithContext" => c.bufNil
        /\ c.bufNil => c.blen = 0
        /\ ~c.limited => c.N = 0}

\* Lines 408-422: the check on entry, then the buffer.
CopyEnter ==
    /\ cp.pc = "entry"
    /\ cp' = IF ctx = "cancelled"
             THEN [cp EXCEPT !.pc = "done", !.ret = <<0, CtxCancelled>>]
             ELSE [cp EXCEPT !.pc = "loop",
                             !.blen = IF cp.bufNil
                                      THEN AllocSize(cp.limited, cp.N)
                                      ELSE @]
    /\ UNCHANGED <<n, flags, ctx, pipes>>
    /\ UNCHANGED <<lastOpts, startFlags, runs, heap, pf, ln, cs>>
    /\ UNCHANGED extVars
    /\ UNCHANGED orchVars
    /\ UNCHANGED stageVars

\* Mutant: the loop does not look at the context.
CopyCheck_Blind ==
    /\ cp.pc = "loop"
    /\ cp' = [cp EXCEPT !.pc = "read"]
    /\ UNCHANGED <<n, flags, ctx, pipes>>
    /\ UNCHANGED <<lastOpts, startFlags, runs, heap, pf, ln, cs>>
    /\ UNCHANGED extVars
    /\ UNCHANGED orchVars
    /\ UNCHANGED stageVars

\* Lines 427-429: the check before each read.
CopyCheck ==
    /\ cp.pc = "loop"
    /\ cp' = IF ctx = "cancelled"
             THEN [cp EXCEPT !.pc = "done", !.ret = <<cp.written, CtxCancelled>>]
             ELSE [cp EXCEPT !.pc = "read"]
    /\ UNCHANGED <<n, flags, ctx, pipes>>
    /\ UNCHANGED <<lastOpts, startFlags, runs, heap, pf, ln, cs>>
    /\ UNCHANGED extVars
    /\ UNCHANGED orchVars
    /\ UNCHANGED stageVars

\* src.Read(buf) of an io.Reader over the bytes left: nothing left gives
\* (0, EOF); a buffer of length 0 gives (0, nil); otherwise between 1 and
\* len(buf) of the bytes left, the last of them with nil or with EOF. A
\* faulty source may also return an error with any count. No Read is made
\* outside the loop body.
ReadOutcomes(c) ==
    IF c.pc # "read" THEN {} ELSE
    LET rem == Len(c.src) - c.pos
        m == Min(c.blen, rem)
    IN  (IF rem = 0 THEN {<<0, EOF>>}
         ELSE IF c.blen = 0 THEN {<<0, Nil>>}
         ELSE {<<k, Nil>> : k \in 1 .. m}
                  \cup (IF rem <= c.blen THEN {<<rem, EOF>>} ELSE {}))
        \cup (IF c.srcFaulty THEN {<<k, ReadErr>> : k \in 0 .. m} ELSE {})

\* dst.Write(buf[0:nr]): a sound destination takes all nr bytes; a faulty
\* one may report any count, valid or not, with or without an error.
WriteOutcomes(c, nr) ==
    {<<nr, Nil>>}
        \cup (IF c.dstFaulty
              THEN {<<w, e>> : w \in (0 - 1) .. (nr + 1), e \in {Nil, WriteErr}}
              ELSE {})

\* Mutant: the count is assigned, not accumulated.
CountWritten_Assigned(written, nw) == nw

\* Line 440: written += int64(nw)
CountWritten(written, nw) == written + nw

\* Lines 432-453: the rest of one iteration, after src.Read returned
\* (nr, er) and, when nr > 0, dst.Write returned (nw0, ew0).
CopyAfterRead(c, nr, er, nw0, ew0) ==
    LET bad == nw0 < 0 \/ nr < nw0
        nw == IF bad THEN 0 ELSE nw0
        ew == IF bad /\ ew0 = Nil THEN InvalidWrite ELSE ew0
        taken == IF nr > 0 THEN Min(nr, IF nw0 < 0 THEN 0 ELSE nw0) ELSE 0
        count == IF nr > 0 THEN CountWritten(c.written, nw) ELSE c.written
        moved == [c EXCEPT !.pos = @ + nr,
                           !.dst = @ \o SubSeq(c.src, c.pos + 1, c.pos + taken),
                           !.written = count]
    IN  IF nr > 0 /\ ew # Nil
        THEN [moved EXCEPT !.pc = "done", !.ret = <<count, ew>>]
        ELSE IF nr > 0 /\ nr # nw
        THEN [moved EXCEPT !.pc = "done", !.ret = <<count, ErrShortWrite>>]
        ELSE IF er # Nil
        THEN [moved EXCEPT !.pc = "done",
                           !.ret = <<count, IF er # EOF THEN er ELSE Nil>>]
        ELSE [moved EXCEPT !.pc = "loop"]

\* Lines 431-453: one read and, if it returned data, one write.
CopyRead(nr, er, nw0, ew0) ==
    /\ cp.pc = "read"
    /\ <<nr, er>> \in ReadOutcomes(cp)
    /\ IF nr > 0
       THEN <<nw0, ew0>> \in WriteOutcomes(cp, nr)
       ELSE nw0 = 0 /\ ew0 = Nil
    /\ cp' = CopyAfterRead(cp, nr, er, nw0, ew0)
    /\ UNCHANGED <<n, flags, ctx, pipes>>
    /\ UNCHANGED <<lastOpts, startFlags, runs, heap, pf, ln, cs>>
    /\ UNCHANGED extVars
    /\ UNCHANGED orchVars
    /\ UNCHANGED stageVars

\* The results of one read and, when it returned data, of the write of it.
IterationOutcomes(c) ==
    UNION {{<<r[1], r[2], w[1], w[2]>> :
               w \in (IF r[1] > 0 THEN WriteOutcomes(c, r[1]) ELSE {<<0, Nil>>})} :
           r \in ReadOutcomes(c)}

InitCopy == InitAll(OpaqueInputs, CopyStarts) /\ n = 0

NextCopy ==
    \/ Cancel
    \/ CopyEnter
    \/ CopyCheck
    \/ \E o \in IterationOutcomes(cp) : CopyRead(o[1], o[2], o[3], o[4])

SpecCopy == InitCopy /\ [][NextCopy]_vars

\* C20: when the context is never cancelled and neither the source nor the
\* destination fails, a finished CopyWithContext or CopyBufferWithContext,
\* with a nil buffer or one of any length >= 1 and whatever chunks the
\* reads delivered, has written exactly the source's bytes in order and
\* returned (their number, nil); for an empty source that is (0, nil) with
\* nothing written.
C20_CopyIsExact ==
    (/\ cp.pc = "done"
     /\ ctx = "live"
     /\ ~cp.srcFaulty /\ ~cp.dstFaulty
     /\ (cp.bufNil \/ cp.blen >= 1))
        => /\ cp.dst = cp.src
           /\ cp.ret = <<Len(cp.src), Nil>>

\* A three-byte source copied through a caller's two-byte buffer, in more
\* than one chunk.
C20_Witness ==
    /\ cp.pc = "done" /\ ctx = "live"
    /\ cp.fn = "CopyBufferWithContext"
    /\ ~cp.srcFaulty /\ ~cp.dstFaulty
    /\ ~cp.bufNil /\ cp.blen = 2
    /\ cp.src = <<0, 1, 1>>
    /\ cp.dst = <<0, 1, 1>>
    /\ cp.ret = <<3, Nil>>

\* A step of the copy that calls src.Read.
ReadStarted == cp.pc = "read" /\ cp' # cp

\* The copy returned the context's error.
CopyCancelled == cp.pc = "done" /\ cp.ret[2] = CtxCancelled

CopyCancelInv ==
    CopyCancelled =>
        /\ ctx = "cancelled"
        /\ cp.ret[1] = cp.written
        /\ cp.written = Len(cp.dst)
        /\ IsPrefix(cp.dst, cp.src)
        /\ cp.pos = Len(cp.dst)

CopyCancelStep ==
    /\ (cp.pc = "entry" /\ ctx = "cancelled")
          => /\ cp'.pc = "done"
             /\ cp'.ret = <<0, CtxCancelled>>
             /\ cp'.pos = 0 /\ cp'.dst = <<>>
    /\ (cp.pc = "loop" /\ ctx = "cancelled")
          => /\ cp'.pc = "done"
             /\ cp'.ret = <<cp.written, CtxCancelled>>
             /\ cp'.pos = cp.pos /\ cp'.dst = cp.dst
    /\ (cp'.pc = "read" /\ cp.pc # "read") => (cp.pc = "loop" /\ ctx = "live")
    /\ ReadStarted => cp'.pc \in {"loop", "done"}
    /\ cp.pc = "done" => cp' = cp

\* C21 as stated: once the context is cancelled, no further read from the
\* source is started.
C21_NoReadOnceCancelled == [][ctx = "cancelled" => ~ReadStarted]_vars

\* C21: CopyBufferWithContext checks the context on entry and before every
\* read. A check that finds the context cancelled ends the call with the
\* context's error and no read or write follows it; a read is started only
\* after a check that found the context live, so at most the one read whose
\* check had already passed starts after the cancellation. When the
\* context's error is returned the count equals the number of bytes the
\* destination received and the destination holds a prefix of the source;
\* with a context cancelled on entry the result is (0, context error) and
\* nothing was read or written.
C21_CancelStopsAtNextCheck == []CopyCancelInv /\ [][CopyCancelStep]_vars

\* A three-byte source whose copy was cancelled after two bytes, with a read
\* still available.
C21_Witness ==
    /\ CopyCancelled
    /\ cp.fn = "CopyBufferWithContext"
    /\ Len(cp.src) = 3
    /\ cp.ret = <<2, CtxCancelled>>
    /\ cp.dst = Take(cp.src, 2)

\* ------------------------------------------------------------ the context
\* A context is live, cancelled by its cancel function, or past its
\* deadline. ctx.Err() of package context:
DeadlineExceeded == <<"context deadline exceeded", 0>>

Err(c) ==
    CASE c = "live" -> Nil
      [] c = "cancelled" -> CtxCancelled
      [] c = "expired" -> DeadlineExceeded

\* ctx.Done() is closed, so a receive from it proceeds.
IsDone(c) == c # "live"

\* Mutant: every done context is reported as cancelled.
CheckContextCancellation_AlwaysCanceled(c) ==
    IF IsDone(c) THEN CtxCancelled ELSE Nil

\* src/helpers.go, lines 235-242: the select takes the Done case when it
\* can proceed and the default case otherwise.
CheckContextCancellation(c) == IF IsDone(c) THEN Err(c) ELSE Nil

Contexts == {"live", "cancelled", "expired"}

\* The deadline of the context passes (context.WithTimeout, WithDeadline).
Expire ==
    /\ ctx = "live"
    /\ mainPc # "done"
    /\ ctx' = "expired"
    /\ UNCHANGED nonCtxVars

\* ------------------------------- ProcessFiles and ProcessFilesWithContext
\* src/helpers.go, lines 39-107, 247-326 and 492-507. pf holds one call.
\* An argument "-" stands for stdin; any other names a file, which os.Open
\* may or may not be able to open.
MaxArgs == 3

FileNames == {"-", "a", "b"}

FileArgs == SeqsUpTo(FileNames, MaxArgs)

\* Lines 31-37, without the strings that only appear in messages.
FileProcessorOptions ==
    [ShowHeaders : BOOLEAN, BlankBetween : BOOLEAN, ContinueOnError : BOOLEAN]

\* Lines 501-504: the options StandardCommand.ProcessFiles passes.
StandardOptions ==
    [ShowHeaders |-> FALSE, BlankBetween |-> FALSE, ContinueOnError |-> TRUE]

\* ProcessFiles takes no context; the other two check it.
TakesContext(fn) == fn # "ProcessFiles"

OpenErr(i) == <<"open failed", i>>

ProcErr(i) == <<"processor failed", i>>

CloseErr(i) == <<"close failed", i>>

\* A call about to begin. i is the position in positionalArgs (from 1),
\* open the files held open, out and errs what was written to output and
\* stderr; opened, invoked, closed and failed record the positions at which
\* os.Open was called, the processor was called, a file was closed and an
\* argument failed.
FilesCall(fn, args_, options) ==
    [pc |-> "entry", fn |-> fn, args |-> args_, options |-> options,
     i |-> 0, lastError |-> Nil, ret |-> Nil, open |-> {},
     out |-> <<>>, errs |-> <<>>, opened |-> <<>>, invoked |-> <<>>,
     closed |-> <<>>, failed |-> <<>>, ctxStop |-> FALSE]

FileStarts ==
    {FilesCall(fn, a, o) : fn \in {"ProcessFiles", "ProcessFilesWithContext"},
                           a \in FileArgs, o \in FileProcessorOptions}
        \cup {FilesCall("StandardCommand.ProcessFiles", a, StandardOptions) :
                 a \in FileArgs}

\* Lines 54, 66, 77 and 285, 296: source.Filename.
SourceName(name) == IF name = "-" THEN "stdin" ELSE name

\* Lines 58 and 272.
MultipleFiles(c) == Len(c.args) > 1 /\ c.options.ShowHeaders

\* Lines 81-86 and 300-305: what is written to output before the processor
\* runs on the argument at position i (Go's index i - 1).
HeaderOutput(c, i) ==
    IF MultipleFiles(c)
    THEN (IF i - 1 > 0 /\ c.options.BlankBetween THEN <<<<"blank", i>>>> ELSE <<>>)
             \o <<<<"header", SourceName(c.args[i])>>>>
    ELSE <<>>

\* Mutant: the first remembered error is kept.
Remember_First(lastError, err) == IF lastError = Nil THEN err ELSE lastError

\* Lines 72, 99 and 291, 318: lastError = err
Remember(lastError, err) == err

\* Lines 69-76, 96-103 and 288-295, 315-322: an argument failed with err.
FileFailed(c, name, err) ==
    LET told == [c EXCEPT !.errs = Append(@, <<name, err>>),
                          !.failed = Append(@, <<c.i, err>>)]
    IN  IF c.options.ContinueOnError
        THEN [told EXCEPT !.lastError = Remember(@, err),
                          !.i = @ + 1, !.pc = "loop"]
        ELSE [told EXCEPT !.pc = "done", !.ret = err]

\* Mutant: the context is looked at on entry only.
FileCheck_OnEntryOnly(fn, c) == Nil

\* Lines 278-280: the check before each file; ProcessFiles has none.
FileCheck(fn, c) == IF TakesContext(fn) THEN CheckContextCancellation(c) ELSE Nil

filesFrame ==
    <<n, flags, ctx, pipes, lastOpts, startFlags, cp, runs, heap, ln,
      input, inPos, extOut, stderrOut, mainPc, wg, errChan, errClosed, sent,
      spawned, joinPc, firstErr, ret, panicked, pc, args, eofSeen, wcount,
      result, inSeq, outSeq, calls, cs>>

\* Lines 47-56 and 256-270: the check on entry, then stdin when there are
\* no arguments; position 0 stands for that call of the processor.
FilesEnter ==
    /\ pf.pc = "entry"
    /\ LET err == IF TakesContext(pf.fn) THEN CheckContextCancellation(ctx) ELSE Nil
       IN  pf' = IF err # Nil
                 THEN [pf EXCEPT !.pc = "done", !.ret = err, !.ctxStop = TRUE]
                 ELSE IF Len(pf.args) = 0
                 THEN [pf EXCEPT !.pc = "stdin", !.invoked = Append(@, 0)]
                 ELSE [pf EXCEPT !.pc = "loop", !.i = 1]
    /\ UNCHANGED filesFrame

\* Lines 55 and 269: the processor's result on stdin is returned.
FilesStdinReturn(e) ==
    /\ pf.pc = "stdin"
    /\ e \in {Nil, ProcErr(0)}
    /\ pf' = [pf EXCEPT !.pc = "done", !.ret = e,
                        !.out = IF e = Nil THEN Append(@, <<"data", 0>>) ELSE @]
    /\ UNCHANGED filesFrame

\* Lines 62, 106 and 276-280, 325: the top of the loop.
FilesNext ==
    /\ pf.pc = "loop"
    /\ LET err == FileCheck(pf.fn, ctx)
       IN  pf' = IF pf.i > Len(pf.args)
                 THEN [pf EXCEPT !.pc = "done", !.ret = pf.lastError]
                 ELSE IF err # Nil
                 THEN [pf EXCEPT !.pc = "done", !.ret = err, !.ctxStop = TRUE]
                 ELSE [pf EXCEPT !.pc = "open"]
    /\ UNCHANGED filesFrame

\* Lines 63-89 and 282-308: the source is chosen (os.Open for a file name),
\* the header is written and the processor is called.
FilesOpen(ok) ==
    /\ pf.pc = "open"
    /\ LET name == pf.args[pf.i]
           begun == [pf EXCEPT !.out = @ \o HeaderOutput(pf, pf.i),
                               !.invoked = Append(@, pf.i),
                               !.pc = "process"]
       IN  IF name = "-"
           THEN ok /\ pf' = begun
           ELSE LET tried == [pf EXCEPT !.opened = Append(@, pf.i)]
                IN  pf' = IF ok
                          THEN [begun EXCEPT !.opened = Append(@, pf.i),
                                             !.open = @ \cup {pf.i}]
                          ELSE FileFailed(tried, name, OpenErr(pf.i))
    /\ UNCHANGED filesFrame

\* Mutant: the source is not closed.
CloseSource_Never(c, i) == c

\* Lines 20-25: Close closes the file if there is one.
CloseSource(c, i) ==
    IF c.args[i] = "-" THEN c
    ELSE [c EXCEPT !.open = @ \ {i}, !.closed = Append(@, i)]

\* Lines 89-103 and 308-322: the processor returns e, the source is closed
\* (ce is what closing a file returns) and the outcome is handled.
FilesProcess(e, ce) ==
    /\ pf.pc = "process"
    /\ e \in {Nil, ProcErr(pf.i)}
    /\ ce \in (IF pf.args[pf.i] = "-" THEN {Nil} ELSE {Nil, CloseErr(pf.i)})
    /\ LET name == SourceName(pf.args[pf.i])
           wrote == [pf EXCEPT !.out = IF e = Nil THEN Append(@, <<"data", pf.i>>) ELSE @]
           shut == CloseSource(wrote, pf.i)
           err == IF ce # Nil /\ e = Nil THEN ce ELSE e
       IN  pf' = IF err # Nil
                 THEN FileFailed(shut, name, err)
                 ELSE [shut EXCEPT !.i = @ + 1, !.pc = "loop"]
    /\ UNCHANGED filesFrame

Errors(i) == {Nil, ProcErr(i), CloseErr(i)}

InitFiles ==
    /\ InitHelpers(OpaqueInputs, {CopyIdle}, {"live", "cancelled"}, FileStarts, {LinesIdle})
    /\ n = 0

NextFiles ==
    \/ Cancel
    \/ FilesEnter
    \/ \E e \in Errors(0) : FilesStdinReturn(e)
    \/ FilesNext
    \/ \E ok \in BOOLEAN : FilesOpen(ok)
    \/ \E e \in Errors(pf.i), ce \in Errors(pf.i) : FilesProcess(e, ce)

SpecFiles == InitFiles /\ [][NextFiles]_vars

Range(seq) == {seq[k] : k \in 1 .. Len(seq)}

\* The call is at one of its context checks and the context is done.
AtEntryCheck == pf.pc = "entry" /\ TakesContext(pf.fn) /\ IsDone(ctx)

AtFileCheck ==
    pf.pc = "loop" /\ pf.i <= Len(pf.args) /\ TakesContext(pf.fn) /\ IsDone(ctx)

FilesCtxStep ==
    /\ AtEntryCheck =>
           /\ pf'.pc = "done" /\ pf'.ret = Err(ctx)
           /\ pf'.invoked = <<>> /\ pf'.opened = <<>>
    /\ AtFileCheck =>
           /\ pf'.pc = "done" /\ pf'.ret = Err(ctx)
           /\ pf'.invoked = pf.invoked /\ pf'.opened = pf.opened
           /\ pf'.out = pf.out
    /\ pf.pc = "done" => pf' = pf

FilesCtxInv ==
    (pf.pc = "done" /\ pf.ctxStop) =>
        /\ pf.ret \in {CtxCancelled, DeadlineExceeded}
        /\ \A k \in Range(pf.invoked) \cup Range(pf.opened) : k < pf.i
        /\ pf.open = {}

\* C22: ProcessFilesWithContext checks the context before starting and
\* before each file. A check that finds the context done ends the call
\* with the context's error at once: the processor is not invoked and no
\* file is opened for that argument or any later one, whether or not
\* ContinueOnError is set and whatever file error was remembered before.
C22_ContextCheckStopsFiles == []FilesCtxInv /\ [][FilesCtxStep]_vars

\* With ContinueOnError set, the first of three files failed and was
\* remembered, the second was processed, and the check before the third
\* found the context cancelled: the context's error is returned.
C22_Witness ==
    /\ pf.pc = "done" /\ pf.ctxStop
    /\ pf.fn = "ProcessFilesWithContext"
    /\ pf.options.ContinueOnError
    /\ Len(pf.args) = 3 /\ pf.i = 3
    /\ pf.lastError = OpenErr(1)
    /\ pf.invoked = <<2>>
    /\ pf.ret = CtxCancelled

Increasing(seq) == \A j, k \in 1 .. Len(seq) : j < k => seq[j] < seq[k]

\* The positions of the arguments the call tried: a file it tried to open,
\* or stdin handed to the processor.
Attempted(c) == Range(c.opened) \cup Range(c.invoked)

\* A call on one or more arguments has returned, and not from a context
\* check.
FilesReturned == pf.pc = "done" /\ Len(pf.args) >= 1 /\ ~pf.ctxStop

FilesErrorInv ==
    FilesReturned =>
        /\ Increasing(pf.opened) /\ Increasing(pf.invoked)
        /\ \A k \in Range(pf.invoked) : pf.args[k] # "-" => k \in Range(pf.opened)
        /\ pf.ret = Nil <=> pf.failed = <<>>
        /\ IF pf.options.ContinueOnError
           THEN /\ Attempted(pf) = 1 .. Len(pf.args)
                /\ pf.failed # <<>> => pf.ret = pf.failed[Len(pf.failed)][2]
           ELSE /\ Len(pf.failed) <= 1
                /\ pf.failed = <<>> => Attempted(pf) = 1 .. Len(pf.args)
                /\ pf.failed # <<>> =>
                       /\ pf.ret = pf.failed[1][2]
                       /\ Attempted(pf) = 1 .. pf.failed[1][1]

\* An argument is recorded as failed exactly when opening it, the
\* processor on it or closing it returned an error, and then the call
\* either goes on to the next argument or returns at once.
FilesErrorStep ==
    /\ pf'.failed # pf.failed =>
           /\ pf.pc \in {"open", "process"}
           /\ pf'.failed = Append(pf.failed, <<pf.i, pf'.failed[Len(pf'.failed)][2]>>)
           /\ pf'.failed[Len(pf'.failed)][2] \in {OpenErr(pf.i), ProcErr(pf.i), CloseErr(pf.i)}
           /\ IF pf.options.ContinueOnError
              THEN pf'.pc = "loop" /\ pf'.i = pf.i + 1
              ELSE pf'.pc = "done"
    /\ (pf.pc \in {"open", "process"} /\ pf'.failed = pf.failed /\ pf' # pf) =>
           pf'.pc \in {"process", "loop"}
    /\ (pf.pc = "done" /\ Len(pf.args) >= 1) => pf'.invoked = pf.invoked /\ pf'.opened = pf.opened

\* C30: ProcessFiles on one or more arguments, when no context check ends
\* the call. With ContinueOnError set every argument is attempted, in
\* order, whatever failed before, and the result is the error of the last
\* argument that failed, nil exactly when none failed. With ContinueOnError
\* unset the first failure is returned at once and no later argument is
\* opened or processed.
C30_ContinueOnError == []FilesErrorInv /\ [][FilesErrorStep]_vars

\* ProcessFiles with ContinueOnError on three arguments: the first cannot
\* be opened, the processor fails on the second, the third succeeds; the
\* second's error is returned.
C30_Witness ==
    /\ FilesReturned
    /\ pf.fn = "ProcessFiles"
    /\ pf.options.ContinueOnError
    /\ Len(pf.args) = 3
    /\ pf.failed = <<<<1, OpenErr(1)>>, <<2, ProcErr(2)>>>>
    /\ pf.invoked = <<2, 3>>
    /\ pf.ret = ProcErr(2)

\* ------------------------- ProcessLinesWithContext and ScanWithContext
\* src/helpers.go, lines 331-349, 389-396 and 458-461. ln holds one loop
\* over a bufio.Scanner with the default split function (bufio.ScanLines):
\* the text behind the reader, the scanner's position in it, its current
\* token and its error.
MaxText == 3

TextBytes == {"a", "\n", "\r"}

Texts == SeqsUpTo(TextBytes, MaxText)

LineErr(k) == <<"line processor failed", k>>

\* bufio's dropCR: a trailing carriage return is not part of the line.
DropCR(data) ==
    IF Len(data) > 0 /\ data[Len(data)] = "\r"
    THEN Take(data, Len(data) - 1)
    ELSE data

\* The position of the first newline in data, 0 if there is none.
IndexNewline(data) ==
    IF \E j \in 1 .. Len(data) : data[j] = "\n"
    THEN CHOOSE j \in 1 .. Len(data) :
             /\ data[j] = "\n"
             /\ \A k \in 1 .. (j - 1) : data[k] # "\n"
    ELSE 0

\* Mutant: the scanner stops one byte before the end of the text.
AtEOF_Early(l) == l.pos + 1 >= Len(l.text)

\* Nothing is left to scan.
AtEOF(l) == l.pos >= Len(l.text)

\* One scanner.Scan() step: <<result, position, token, error>>. At the end
\* of the text it returns false; otherwise the token is the text up to the
\* next newline, or all that is left when there is none. With a faulty
\* reader it may return false with the reader's error instead.
ScanOutcomes(l) ==
    LET rest == Drop(l.text, l.pos)
        j == IndexNewline(rest)
    IN  (IF AtEOF(l) THEN {<<FALSE, l.pos, <<>>, l.serr>>}
         ELSE IF j > 0
         THEN {<<TRUE, l.pos + j, DropCR(Take(rest, j - 1)), Nil>>}
         ELSE {<<TRUE, Len(l.text), DropCR(rest), Nil>>})
        \cup (IF l.faulty /\ l.serr = Nil
              THEN {<<FALSE, l.pos, <<>>, ReadErr>>}
              ELSE {})

LineFns == {"ProcessLinesWithContext", "ProcessLinesSimple", "ScanWithContext"}

\* A loop about to begin: ProcessLinesWithContext (or ProcessLinesSimple,
\* which calls it) on a new scanner, or `for ScanWithContext(ctx, scanner)`
\* visiting scanner.Text(). calls records the processor's invocations,
\* visited the tokens the scan loop saw, chk the latest context check
\* (the context it was given and what it returned), res what the latest
\* ScanWithContext returned.
LineLoop(fn, text, faulty) ==
    [pc |-> IF fn = "ScanWithContext" THEN "swc" ELSE "scan",
     fn |-> fn, text |-> text, faulty |-> faulty,
     pos |-> 0, tok |-> <<>>, serr |-> Nil, lineNum |-> 1,
     calls |-> <<>>, visited |-> <<>>, chk |-> <<"none", Nil>>,
     res |-> TRUE, ret |-> Nil]

LineStarts ==
    {LineLoop(fn, text, faulty) :
        fn \in LineFns, text \in Texts, faulty \in BOOLEAN}

linesFrame ==
    <<n, flags, ctx, pipes, lastOpts, startFlags, cp, runs, heap, pf,
      input, inPos, extOut, stderrOut, mainPc, wg, errChan, errClosed, sent,
      spawned, joinPc, firstErr, ret, panicked, pc, args, eofSeen, wcount,
      result, inSeq, outSeq, calls, cs>>

\* The scanner of loop l after a Scan step with outcome o.
Scanned(l, o) == [l EXCEPT !.pos = o[2], !.tok = o[3], !.serr = o[4]]

\* Lines 336 and 348: scanner.Scan() as the loop condition; when it fails
\* the loop ends and scanner.Err() is returned.
LinesScan(o) ==
    /\ ln.pc = "scan"
    /\ o \in ScanOutcomes(ln)
    /\ ln' = IF o[1]
             THEN [Scanned(ln, o) EXCEPT !.pc = "check"]
             ELSE [Scanned(ln, o) EXCEPT !.pc = "done", !.ret = o[4]]
    /\ UNCHANGED linesFrame

\* Lines 338-342: the check before each line, then the processor is
\* called with lineNum and scanner.Text().
LinesCheck ==
    /\ ln.pc = "check"
    /\ LET err == CheckContextCancellation(ctx)
           seen == [ln EXCEPT !.chk = <<ctx, err>>]
       IN  ln' = IF err # Nil
                 THEN [seen EXCEPT !.pc = "done", !.ret = err]
                 ELSE [seen EXCEPT !.pc = "call",
                                   !.calls = Append(@, <<ln.lineNum, ln.tok>>)]
    /\ UNCHANGED linesFrame

\* Mutant: the line number is not advanced.
NextLineNum_Stuck(k) == k

\* Line 345: lineNum++
NextLineNum(k) == k + 1

\* Lines 342-345: the processor returns e.
LinesProcess(e) ==
    /\ ln.pc = "call"
    /\ e \in {Nil, LineErr(ln.lineNum)}
    /\ ln' = IF e # Nil
             THEN [ln EXCEPT !.pc = "done", !.ret = e]
             ELSE [ln EXCEPT !.pc = "scan", !.lineNum = NextLineNum(@)]
    /\ UNCHANGED linesFrame

\* Lines 391-394: ScanWithContext checks the context and returns false
\* when it is done.
ScanCheck ==
    /\ ln.pc = "swc"
    /\ LET err == CheckContextCancellation(ctx)
           seen == [ln EXCEPT !.chk = <<ctx, err>>]
       IN  ln' = IF err # Nil
                 THEN [seen EXCEPT !.pc = "done", !.res = FALSE]
                 ELSE [seen EXCEPT !.pc = "swc-scan"]
    /\ UNCHANGED linesFrame

\* Line 395: return scanner.Scan(); on true the loop body sees
\* scanner.Text() and ScanWithContext is called again.
ScanStep(o) ==
    /\ ln.pc = "swc-scan"
    /\ o \in ScanOutcomes(ln)
    /\ ln' = IF o[1]
             THEN [Scanned(ln, o) EXCEPT !.pc = "swc", !.res = TRUE,
                                         !.visited = Append(@, o[3])]
             ELSE [Scanned(ln, o) EXCEPT !.pc = "done", !.res = FALSE]
    /\ UNCHANGED linesFrame

InitLines ==
    /\ InitHelpers(OpaqueInputs, {CopyIdle}, Contexts, {FilesIdle}, LineStarts)
    /\ n = 0

NextLines ==
    \/ Cancel
    \/ Expire
    \/ \E o \in ScanOutcomes(ln) : LinesScan(o)
    \/ LinesCheck
    \/ \E e \in {Nil, LineErr(ln.lineNum)} : LinesProcess(e)
    \/ ScanCheck
    \/ \E o \in ScanOutcomes(ln) : ScanStep(o)

SpecLines == InitLines /\ [][NextLines]_vars

\* The lines of a text: the pieces between newlines, each without a
\* trailing carriage return; a final piece that no newline ends is a line
\* unless it is empty.
RECURSIVE SplitLines(_)
SplitLines(text) ==
    IF text = <<>> THEN <<>>
    ELSE LET j == IndexNewline(text)
         IN  IF j = 0 THEN <<DropCR(text)>>
             ELSE <<DropCR(Take(text, j - 1))>> \o SplitLines(Drop(text, j))

ProcessesLines == ln.fn \in {"ProcessLinesWithContext", "ProcessLinesSimple"}

LinesInv ==
    ProcessesLines =>
        /\ Len(ln.calls) <= Len(SplitLines(ln.text))
        /\ \A k \in 1 .. Len(ln.calls) :
               ln.calls[k] = <<k, SplitLines(ln.text)[k]>>
        /\ ln.lineNum \in {Len(ln.calls), Len(ln.calls) + 1}

LinesStep ==
    ProcessesLines =>
        /\ (ln.pc = "check" /\ IsDone(ctx)) =>
               /\ ln'.pc = "done" /\ ln'.ret = Err(ctx)
               /\ ln'.calls = ln.calls
        /\ (ln.pc = "check" /\ ~IsDone(ctx) /\ ln' # ln) =>
               ln'.calls = Append(ln.calls, <<Len(ln.calls) + 1, ln.tok>>)
        /\ ln'.calls # ln.calls => ln.pc = "check"
        /\ (ln.pc = "call" /\ ln' # ln) =>
               \/ ln'.pc = "scan" /\ ln'.ret = Nil
               \/ ln'.pc = "done" /\ ln'.ret = LineErr(Len(ln.calls))
        /\ ln.pc = "done" => ln' = ln

\* C23: ProcessLinesWithContext, and ProcessLinesSimple which calls it,
\* checks the context before each line and calls the processor on the
\* lines of the input in order, numbered 1, 2, 3, ...; after the first
\* check that finds the context done, or the first processor call that
\* returns an error, no further line is processed and that error is the
\* result.
C23_LinesInOrderUntilError == []LinesInv /\ [][LinesStep]_vars

\* Of three lines, two were processed and the check before the third found
\* the deadline passed.
C23_Witness ==
    /\ ln.fn = "ProcessLinesSimple"
    /\ ln.pc = "done"
    /\ Len(SplitLines(ln.text)) = 3
    /\ Len(ln.calls) = 2
    /\ ln.calls[2] = <<2, SplitLines(ln.text)[2]>>
    /\ ln.ret = DeadlineExceeded

CheckInv ==
    /\ ln.chk[1] # "none" => (ln.chk[1] = "live" <=> ln.chk[2] = Nil)
    /\ ln.chk[1] = "cancelled" => ln.chk[2] = CtxCancelled
    /\ ln.chk[1] = "expired" => ln.chk[2] = DeadlineExceeded
    /\ ln.pc = "check" => ENABLED LinesCheck
    /\ ln.pc = "swc" => ENABLED ScanCheck

\* A step that calls CheckContextCancellation: it is given the current
\* context and changes neither it nor the scanner.
CheckStep ==
    ln'.chk # ln.chk =>
        /\ ln'.chk[1] = ctx
        /\ ctx' = ctx
        /\ ln'.pos = ln.pos /\ ln'.tok = ln.tok /\ ln'.serr = ln.serr

\* C24: CheckContextCancellation returns at once, whatever the context's
\* state, and changes nothing: nil exactly for a context that is not done,
\* context.Canceled for a cancelled one, context.DeadlineExceeded for one
\* past its deadline.
C24_CheckReportsContextError == []CheckInv /\ [][CheckStep]_vars

\* A check made on a context past its deadline.
C24_Witness ==
    /\ ln.chk = <<"expired", DeadlineExceeded>>
    /\ ln.pc = "done"
    /\ ln.fn = "ScanWithContext"

ScansLines == ln.fn = "ScanWithContext"

ScanInv ==
    ScansLines =>
        /\ ~ln.faulty => IsPrefix(ln.visited, SplitLines(ln.text))
        /\ (ln.pc = "done" /\ ctx = "live" /\ ~ln.faulty) =>
               /\ ln.visited = SplitLines(ln.text)
               /\ ln.res = FALSE
               /\ AtEOF(ln)

ScanWithContextStep ==
    ScansLines =>
        /\ (ln.pc = "swc" /\ IsDone(ctx)) =>
               /\ ln'.pc = "done" /\ ln'.res = FALSE
               /\ ln'.pos = ln.pos /\ ln'.tok = ln.tok
               /\ ln'.visited = ln.visited
        /\ (ln.pc = "swc" /\ ~IsDone(ctx) /\ ln' # ln) =>
               /\ ln'.pc = "swc-scan"
               /\ ln'.pos = ln.pos /\ ln'.visited = ln.visited
        /\ (ln.pc = "swc-scan" /\ ln' # ln) =>
               /\ <<ln'.res, ln'.pos, ln'.tok, ln'.serr>> \in ScanOutcomes(ln)
               /\ ln'.res => ln'.visited = Append(ln.visited, ln'.tok) /\ ln'.pc = "swc"
               /\ ~ln'.res => ln'.visited = ln.visited /\ ln'.pc = "done"
        /\ (ln.pc = "swc-scan" /\ Len(ln.text) = 0 /\ ln' # ln) =>
               ln.visited = <<>> /\ ~ln'.res
        /\ ln.pc = "done" => ln' = ln

\* C25: ScanWithContext returns false and leaves the scanner where it was
\* when its check finds the context done; otherwise it returns what one
\* scanner.Scan step returns. A loop over it under a live context and a
\* sound reader visits the lines of the input, each once and in order, and
\* ends with false at the end of the input, at the first call when the
\* input is empty.
C25_ScanLoopVisitsEveryLine == []ScanInv /\ [][ScanWithContextStep]_vars

\* A loop that visited an empty line and a line ended by "\r\n" and then
\* stopped at the end of the input.
C25_Witness ==
    /\ ScansLines
    /\ ln.pc = "done" /\ ctx = "live" /\ ~ln.faulty
    /\ ln.text = <<"\n", "a", "\r">>
    /\ ln.visited = <<<<>>, <<"a">>>>
    /\ ~ln.res

\* ------------------------------------------------ connectors' read ends
ReadEndsOpen == \A k \in DOMAIN pipes : ~pipes[k].rclosed

\* Stage i has a Write pending on its connector and the stage that reads
\* it has returned.
Abandoned(i) ==
    /\ i + 1 < n
    /\ pc[i] = "running"
    /\ WriteBlocked(i)
    /\ pc[i + 1] \in {"returned", "closed", "done"}

\* While a stage is abandoned its task has not finished, the wait group is
\* not at zero, the join task cannot close the collector and Execute
\* cannot return.
AbandonedInv ==
    \A i \in Stages :
        Abandoned(i) =>
            /\ wg >= 1
            /\ ~errClosed
            /\ mainPc = "drain"
            /\ ~ENABLED JoinClose
            /\ ~ENABLED ExecuteReturn
            /\ \A e \in AllErrs : ~ENABLED StageReturn(i, e)
            /\ ~ENABLED CloseOutput(i)

AbandonedStep == \A i \in Stages : Abandoned(i) => Abandoned(i)'

\* C26: no step of Execute closes the read end of a connector. So once
\* the reader of a connector has returned, with success or with an error,
\* a stage with a Write pending on that connector stays in that Write: no
\* step releases it, its task does not finish, the join task does not
\* close the collector and Execute does not return, with pipefail on or
\* off.
C26_ReadEndNeverClosed ==
    []ReadEndsOpen /\ []AbandonedInv /\ [][AbandonedStep]_vars

\* With pipefail on, the second stage failed and its error was received
\* while the first stage is still held in its Write.
C26_Witness ==
    /\ n = 2 /\ flags.PipeFail
    /\ Abandoned(0)
    /\ result[1] = StageErr(1)
    /\ pc[1] = "done"
    /\ firstErr = StageErr(1)
    /\ ~Returned

\* ------------------------------------------------- sends to the collector
\* The stage whose task sent entry e.
Sender(e) == e[2]

\* A stage task is at its send (the stage returned and its output is
\* closed) and the send can proceed at once.
SendReady(i) ==
    (i \in spawned /\ pc[i] = "closed") => ENABLED RecordAndDone(i)

CollectorInv ==
    /\ Len(errChan) <= ErrChanCap(n)
    /\ Len(sent) <= n
    /\ \A j, k \in 1 .. Len(sent) : j # k => Sender(sent[j]) # Sender(sent[k])
    /\ \A k \in 1 .. Len(sent) :
           /\ Sender(sent[k]) \in Index(n)
           /\ pc[Sender(sent[k])] = "done"
           /\ sent[k] = result[Sender(sent[k])]
           /\ sent[k] # Nil
           /\ flags.PipeFail
    /\ ~flags.PipeFail => errChan = <<>> /\ sent = <<>>
    /\ \A i \in Stages : SendReady(i)
    /\ ~panicked

\* A step that puts an entry in the collector is the step of a stage task
\* that ends the task, and it adds one entry.
CollectorStep ==
    /\ sent' # sent =>
           /\ Len(sent') = Len(sent) + 1
           /\ wg' = wg - 1
           /\ errChan' = Append(errChan, sent'[Len(sent')])
    /\ Len(errChan') > Len(errChan) => sent' # sent

\* C28: the collector has room for N entries and each stage task sends at
\* most one, only when its stage returned an error and pipefail is on. So
\* the collector never holds more than N entries, a task that reaches its
\* send can always complete it without the drain taking anything first,
\* and with pipefail off the collector stays empty.
C28_SendNeverBlocks == []CollectorInv /\ [][CollectorStep]_vars

\* Three stages all failed and all three entries are in the collector,
\* none received yet.
C28_Witness ==
    /\ n = 3 /\ flags.PipeFail
    /\ Len(errChan) = 3
    /\ firstErr = Nil
    /\ \A i \in Index(3) : pc[i] = "done"

\* ------------------------------------------------- WithFlags replaces
NonNil(sw) == ~IsNilSwitch(sw)

\* The flags after the latest WithFlags call are a function of that call's
\* list alone, nil entries aside.
ReplacedInv ==
    IF lastOpts.called
    THEN /\ flags = configure(lastOpts.opts)
         /\ flags = configure(SelectSeq(lastOpts.opts, NonNil))
    ELSE flags = NewPipelineFlags

\* A WithFlags call: whatever the flags were, a field its list does not
\* target ends at the zero value and a field it targets at the value of
\* the last configurator targeting it; a list of nil entries only gives
\* the zero flags.
ReplacedStep ==
    LET opts == lastOpts'.opts
    IN  /\ lastOpts'.called
        /\ \A f \in Fields :
               flags'[f] = IF Targets(opts, f) = {} THEN ZeroFlags[f]
                           ELSE opts[Max(Targets(opts, f))][2]
        /\ SelectSeq(opts, NonNil) = <<>> => flags' = ZeroFlags
        /\ \A f \in Fields :
               (flags[f] # ZeroFlags[f] /\ Targets(opts, f) = {})
                   => flags'[f] # flags[f]

DrainingReturn(i, e) ==
    /\ i > 0 => eofSeen[i]
    /\ StageReturn(i, e)

\* The scheduler runs every task that can run; a stage that can read does
\* read, and a stage whose work is done returns.
FairnessTerm ==
    /\ WF_vars(ExecuteLaunch)
    /\ \A i \in Stages : WF_vars(StageRead(i, 1))
    /\ \A i \in Stages : WF_vars(\E e \in AllErrs : DrainingReturn(i, e))
    /\ \A i \in Stages : WF_vars(CloseOutput(i))
    /\ \A i \in Stages : WF_vars(RecordAndDone(i))
    /\ WF_vars(JoinClose)
    /\ WF_vars(DrainOne)
    /\ WF_vars(ExecuteReturn)

InitTerm == Init /\ n >= 2

\* A step of a started call.
RunTerm ==
    \/ \E i \in Stages : StageRead(i, 1)
    \/ \E i \in Stages, chunk \in OpaqueChunks : StageWrite(i, chunk)
    \/ \E i \in Stages : StageWriteStderr(i)
    \/ \E i \in Stages, e \in AllErrs : DrainingReturn(i, e)
    \/ \E i \in Stages : CloseOutput(i)
    \/ \E i \in Stages : RecordAndDone(i)
    \/ JoinClose
    \/ DrainOne
    \/ ExecuteReturn

NextTerm ==
    \/ \E opts \in FlagLists : mainPc = "built" /\ WithFlags(opts)
    \/ Cancel
    \/ ExecuteLaunch
    \/ RunTerm

SpecTerm == InitTerm /\ [][NextTerm]_vars /\ FairnessTerm

\* C27: for N >= 2, with stages that write finitely often and, except the
\* first, return only after reading end-of-stream, every Execute call that
\* has begun eventually returns, with pipefail on or off and whichever
\* stages fail; until it returns some task can take a step, so the stage
\* tasks, the join task and the drain never wait on one another for good.
C27_ExecuteTerminates ==
    /\ Started ~> Returned
    /\ [](Started /\ ~Returned => ENABLED <<RunTerm>>_vars)

\* A call of three stages has returned after the first two wrote to their
\* connectors and the middle stage failed, with pipefail on.
C27_Witness ==
    /\ n = 3 /\ flags.PipeFail
    /\ Returned
    /\ wcount[0] = 1 /\ wcount[1] = 1
    /\ eofSeen[1] /\ eofSeen[2]
    /\ result[1] = StageErr(1)
    /\ ret = StageErr(1)

\* ------------------------------------------------------------ file handles
\* The file the call holds open while the processor runs on position i.
HeldAt(c) == IF c.args[c.i] = "-" THEN {} ELSE {c.i}

HandleInv ==
    /\ Cardinality(pf.open) <= 1
    /\ pf.pc = "process" => pf.open = HeldAt(pf)
    /\ pf.pc # "process" => pf.open = {}
    /\ Increasing(pf.closed)
    /\ \A k \in Range(pf.closed) :
           /\ pf.args[k] # "-"
           /\ k \in Range(pf.opened)
           /\ k \in Range(pf.invoked)
    /\ Len(pf.args) = 0 => pf.opened = <<>> /\ pf.closed = <<>>

\* A file is opened only by the step that hands it to the processor, and
\* the step in which the processor returns closes it, whatever the
\* processor returned and whatever happens next; stdin is not closed.
HandleStep ==
    /\ pf'.open # pf.open =>
           \/ pf.pc = "open" /\ pf'.pc = "process" /\ pf'.open = {pf.i}
           \/ pf.pc = "process" /\ pf'.open = {}
    /\ (pf.pc = "process" /\ pf' # pf) =>
           /\ pf'.open = {}
           /\ pf'.closed = IF pf.args[pf.i] = "-" THEN pf.closed
                           ELSE Append(pf.closed, pf.i)
    /\ pf.pc # "process" => pf'.closed = pf.closed

\* C31: ProcessFiles and ProcessFilesWithContext do not leak a file: a
\* file they open is closed in the step in which the processor returns
\* for it, with success or failure and with ContinueOnError set or not;
\* at most one file is open at a time, none when the call has returned,
\* and stdin (no arguments, or "-") is never closed.
C31_NoFileLeak == []HandleInv /\ [][HandleStep]_vars

\* Without ContinueOnError the processor failed on the second argument, a
\* file, after stdin was processed: the call returned at once, the file is
\* closed and stdin is not.
C31_Witness ==
    /\ pf.pc = "done"
    /\ ~pf.options.ContinueOnError
    /\ pf.args = <<"-", "a", "b">>
    /\ pf.ret = ProcErr(2)
    /\ pf.invoked = <<1, 2>>
    /\ pf.closed = <<2>>
    /\ pf.open = {}

\* ------------------------------------------------------- blank separators
IsBlank(tok) == tok[1] = "blank"

IsHeader(tok) == tok[1] = "header"

HeaderBefore(out, j) == \E k \in 1 .. (j - 1) : IsHeader(out[k])

\* C33: with ShowHeaders and BlankBetween set and more than one argument,
\* a blank line comes before a header exactly when another header was
\* written earlier in the call, so the output does not start with a blank
\* line, also when earlier arguments could not be opened under
\* ContinueOnError.
C33_BlankOnlyBetween ==
    (MultipleFiles(pf) /\ pf.options.BlankBetween) =>
        /\ pf.out # <<>> => ~IsBlank(pf.out[1])
        /\ \A j \in 1 .. Len(pf.out) :
               IsHeader(pf.out[j]) =>
                   ((j > 1 /\ IsBlank(pf.out[j - 1])) <=> HeaderBefore(pf.out, j))

\* Under ContinueOnError the first of two files could not be opened: the
\* output of the call begins with the blank line written before the
\* second file's header.
C33_Witness ==
    /\ pf.pc = "done"
    /\ pf.fn = "ProcessFiles"
    /\ pf.options.ContinueOnError /\ pf.options.ShowHeaders /\ pf.options.BlankBetween
    /\ pf.args = <<"a", "b">>
    /\ pf.failed = <<<<1, OpenErr(1)>>>>
    /\ pf.out = <<<<"blank", 2>>, <<"header", "b">>, <<"data", 2>>>>

\* ------------------------------ CollectInputSources and CloseInputSources
\* src/helpers.go, lines 139-172. cs holds one CollectInputSources call
\* and, after a successful one, the caller's CloseInputSources call on what
\* it returned. A source is its Filename and its File: the position of the
\* argument the file was opened for, or NilFile for stdin.
NilFile == 0

StdinSource == [Filename |-> "stdin", File |-> NilFile]

FileSource(name, i) == [Filename |-> name, File |-> i]

\* Line 154: fmt.Errorf("cannot open %s: %v", filename, err)
CannotOpen(i) == <<"cannot open", i>>

\* A nil slice of sources.
NilSources == <<"nil">>

CollectCall(args_) ==
    [pc |-> "entry", args |-> args_, i |-> 0, sources |-> <<>>,
     open |-> {}, closed |-> <<>>, ret |-> <<NilSources, Nil>>, closeRet |-> Nil]

CollectStarts == {CollectCall(a) : a \in FileArgs}

collectFrame ==
    <<n, flags, ctx, pipes, lastOpts, startFlags, cp, runs, heap, pf, ln,
      input, inPos, extOut, stderrOut, mainPc, wg, errChan, errClosed, sent,
      spawned, joinPc, firstErr, ret, panicked, pc, args, eofSeen, wcount,
      result, inSeq, outSeq, calls>>

\* Lines 141-146: with no arguments the result is stdin alone.
CollectEnter ==
    /\ cs.pc = "entry"
    /\ cs' = IF Len(cs.args) = 0
             THEN [cs EXCEPT !.pc = "done", !.sources = <<StdinSource>>,
                             !.ret = <<<<StdinSource>>, Nil>>]
             ELSE [cs EXCEPT !.pc = "loop", !.i = 1]
    /\ UNCHANGED collectFrame

\* The loop moves to the next argument, or returns the sources after the
\* last one (line 160).
CollectAdvance(c) ==
    IF c.i = Len(c.args)
    THEN [c EXCEPT !.pc = "done", !.ret = <<c.sources, Nil>>]
    ELSE [c EXCEPT !.i = @ + 1]

\* Lines 148-158: one argument; ok is whether os.Open succeeds. On failure
\* the function returns nil and the error.
CollectOpen(ok) ==
    /\ cs.pc = "loop"
    /\ LET name == cs.args[cs.i]
       IN  IF name = "-"
           THEN /\ ok
                /\ cs' = CollectAdvance([cs EXCEPT !.sources = Append(@, StdinSource)])
           ELSE cs' = IF ok
                      THEN CollectAdvance(
                               [cs EXCEPT !.sources = Append(@, FileSource(name, cs.i)),
                                          !.open = @ \cup {cs.i}])
                      ELSE [cs EXCEPT !.pc = "done",
                                      !.ret = <<NilSources, CannotOpen(cs.i)>>]
    /\ UNCHANGED collectFrame

\* The positions of the files among sources.
FilesOf(sources) ==
    {sources[k].File : k \in {j \in 1 .. Len(sources) : sources[j].File # NilFile}}

\* Lines 164-172: the caller closes the sources a successful call
\* returned; failing is the set of files whose Close returns an error,
\* the last of which is the result.
CloseInputSources(failing) ==
    /\ cs.pc = "done"
    /\ cs.ret[2] = Nil
    /\ failing \subseteq FilesOf(cs.ret[1])
    /\ cs' = [cs EXCEPT !.pc = "closed",
                        !.open = @ \ FilesOf(cs.ret[1]),
                        !.closed = SelectSeq([k \in 1 .. Len(cs.args) |-> k],
                                             LAMBDA k : k \in FilesOf(cs.ret[1])),
                        !.closeRet = IF failing = {} THEN Nil
                                     ELSE CloseErr(Max(failing))]
    /\ UNCHANGED collectFrame

InitCollect ==
    /\ InitEvery(OpaqueInputs, {CopyIdle}, {"live"}, {FilesIdle}, {LinesIdle},
                 CollectStarts)
    /\ n = 0

NextCollect ==
    \/ CollectEnter
    \/ \E ok \in BOOLEAN : CollectOpen(ok)
    \/ \E failing \in SUBSET (1 .. MaxArgs) : CloseInputSources(failing)

SpecCollect == InitCollect /\ [][NextCollect]_vars

\* The sources a successful call on args returns.
ExpectedSources(args_) ==
    IF Len(args_) = 0 THEN <<StdinSource>>
    ELSE [k \in 1 .. Len(args_) |->
             IF args_[k] = "-" THEN StdinSource ELSE FileSource(args_[k], k)]

\* C32: CollectInputSources is all-or-nothing: on success it returns one
\* source per argument in argument order (stdin for "-" and for an empty
\* list), with exactly the files of those sources open; when an open fails
\* it returns nil and an error and no file opened earlier in the call is
\* still open.
C32_AllOrNothing ==
    cs.pc = "done" =>
        IF cs.ret[2] = Nil
        THEN /\ cs.ret[1] = ExpectedSources(cs.args)
             /\ cs.open = FilesOf(cs.ret[1])
        ELSE /\ cs.ret[1] = NilSources
             /\ cs.open = {}

\* The first of two files was opened, the second could not be: the call
\* returned nil and the error while the first file is still open.
C32_Witness ==
    /\ cs.pc = "done"
    /\ cs.args = <<"a", "b">>
    /\ cs.ret = <<NilSources, CannotOpen(2)>>
    /\ cs.open = {1}

\* ------------------------------------------------- termination of the copy
\* A copy under a context that is never cancelled. The goroutine running
\* it is scheduled: each of its steps that can be taken is taken.
CopyIteration == \E o \in IterationOutcomes(cp) : CopyRead(o[1], o[2], o[3], o[4])

InitCopyLive == InitCopy /\ ctx = "live"

NextCopyLive ==
    \/ CopyEnter
    \/ CopyCheck
    \/ CopyIteration

FairnessCopy ==
    /\ WF_vars(CopyEnter)
    /\ WF_vars(CopyCheck)
    /\ WF_vars(CopyIteration)

SpecCopyLive == InitCopyLive /\ [][NextCopyLive]_vars /\ FairnessCopy

\* C34: under a context that is never cancelled, CopyBufferWithContext on
\* a finite source eventually returns, whatever buffer it is given: nil,
\* of length 1 or more, or non-nil of length 0.
C34_CopyTerminates == <>(cp.pc = "done")

\* A call with a non-nil buffer of length 0 on a source that still has
\* bytes is about to read: the Read returns (0, nil) and the loop comes
\* back to this state.
C34_Witness ==
    /\ cp.pc = "read"
    /\ cp.fn = "CopyBufferWithContext"
    /\ ~cp.bufNil /\ cp.blen = 0
    /\ ~cp.srcFaulty /\ ~cp.dstFaulty
    /\ Len(cp.src) = 3 /\ cp.pos = 0
    /\ IterationOutcomes(cp) = {<<0, Nil, 0, Nil>>}

====
